---- MODULE Spec2Model ----
(***************************************************************************)
(* A model of the path geometry engine (usvg/src/tree/pathdata.rs) and of  *)
(* the recursive compositor (crates/resvg/src/render.rs).                  *)
(*                                                                         *)
(* Coordinates are integers.  The grid {0, 36} is chosen so that every     *)
(* parametric extremum of a cubic whose control points lie on the grid, or *)
(* come from the degree raising of a quadratic on the grid, is an integer: *)
(* the bounding boxes below are exact, not rounded.                        *)
(***************************************************************************)
EXTENDS Integers, Sequences, FiniteSets, TLC

VARIABLES
    path,      \* PathData: the segment sequence under construction
    it,        \* SubPathIter: the path it borrows, its index, what it yielded
    res,       \* outcome of the last operation that returns a value
    aborted    \* TRUE once a panic! has unwound out of an operation

pathVars == <<path, it, res, aborted>>

VARIABLES
    kind,      \* the scene tree: kind[n] of node n
    parent,    \* parent[n]: the group that lists n among its children, 0 for the root
    rstate,    \* Tree::render: "ready", "running" or "done"
    ctx,       \* Context: root_transform, target_size, max_filter_region
    canvas,    \* what the caller's pixmap holds when render has returned
    stack,     \* the active render_nodes / render_group calls, outermost first
    trace,     \* every draw onto a surface so far, in time order
    last,      \* the layer composited last: its group and what was done to it
    rejected,  \* the groups for which render_group returned None
    fields,    \* what render_group was given for a group: bbox, filters, parent_offset
    opacity    \* the scene tree: opacity[n] of group n, in 64ths

renderVars ==
    <<kind, parent, rstate, ctx, canvas, stack, trace, last, rejected, fields,
      opacity>>

vars == <<path, it, res, aborted,
          kind, parent, rstate, ctx, canvas, stack, trace, last, rejected, fields,
          opacity>>

----------------------------------------------------------------------------
(* Bounds of the model *)

MaxLen == 3
MaxNodes == 3
MaxFilters == 2
CanvasW == 4
CanvasH == 3

Coords == {0, 36}
Pts == {<<0, 0>>, <<36, 0>>, <<36, 36>>}
\* Control points of the curves pushed, and end points of the quadratics
CtrlPts == {<<0, 0>>, <<36, 36>>}
QuadEnds == {<<36, 0>>}

----------------------------------------------------------------------------
(* PathSegment, cubic-only configuration (pathdata.rs 18-39) *)

MoveTo(x, y) ==
    [kind |-> "M", x1 |-> 0, y1 |-> 0, x2 |-> 0, y2 |-> 0, x |-> x, y |-> y]
LineTo(x, y) ==
    [kind |-> "L", x1 |-> 0, y1 |-> 0, x2 |-> 0, y2 |-> 0, x |-> x, y |-> y]
CurveTo(x1, y1, x2, y2, x, y) ==
    [kind |-> "C", x1 |-> x1, y1 |-> y1, x2 |-> x2, y2 |-> y2, x |-> x, y |-> y]
ClosePath ==
    [kind |-> "Z", x1 |-> 0, y1 |-> 0, x2 |-> 0, y2 |-> 0, x |-> 0, y |-> 0]

SubSeq1(s, from) == SubSeq(s, from, Len(s))

Min2(a, b) == IF a < b THEN a ELSE b
Max2(a, b) == IF a > b THEN a ELSE b
Abs(a) == IF a < 0 THEN -a ELSE a

RECURSIVE GCD(_, _)
GCD(a, b) == IF b = 0 THEN Abs(a) ELSE GCD(b, a % Abs(b))

RECURSIVE ISqrtFrom(_, _)
ISqrtFrom(n, r) == IF (r + 1) * (r + 1) > n THEN r ELSE ISqrtFrom(n, r + 1)
ISqrt(n) == ISqrtFrom(n, 0)

----------------------------------------------------------------------------
(* Transform: an affine map (a b c d e f); apply is x' = ax + cy + e,      *)
(* y' = bx + dy + f.                                                       *)

Ts(a, b, c, d, e, f) == [a |-> a, b |-> b, c |-> c, d |-> d, e |-> e, f |-> f]
Identity == Ts(1, 0, 0, 1, 0, 0)
FlipDiag == Ts(0, -1, -1, 0, 36, 36)

Transforms == {Identity, FlipDiag}

\* Transform::apply with the roles of b and c exchanged.
ApplyTransposed(ts, x, y) == <<ts.a * x + ts.b * y + ts.e, ts.c * x + ts.d * y + ts.f>>

Apply(ts, x, y) == <<ts.a * x + ts.c * y + ts.e, ts.b * x + ts.d * y + ts.f>>

----------------------------------------------------------------------------
(* kurbo::CubicBez::bounding_box: the box of the end points and of the     *)
(* curve's points at the interior roots of its derivative, per axis.       *)

\* A root n/d of the derivative with d > 0, in lowest terms.
NormFrac(n, d) ==
    LET g == GCD(n, d)
        s == IF d < 0 THEN -1 ELSE 1
    IN  <<(s * n) \div g, (s * d) \div g>>

\* The interior roots (0 < t < 1) of the derivative of the 1-D cubic.
CubicRoots(p0, p1, p2, p3) ==
    LET a == p1 - p0
        b == p2 - p1
        c == p3 - p2
        A == a - 2 * b + c
        disc == b * b - a * c
        s == IF disc < 0 THEN 0 ELSE ISqrt(disc)
        all == IF A = 0
               THEN IF b - a = 0 THEN {} ELSE {NormFrac(-a, 2 * (b - a))}
               ELSE IF disc < 0 THEN {}
                    ELSE {NormFrac(a - b + s, A), NormFrac(a - b - s, A)}
    IN  {t \in all : 0 < t[1] /\ t[1] < t[2]}

\* d^3 * B(n/d)
CubicNum(p0, p1, p2, p3, t) ==
    LET n == t[1]
        m == t[2] - t[1]
    IN  m * m * m * p0 + 3 * m * m * n * p1 + 3 * m * n * n * p2 + n * n * n * p3

CubicLo(p0, p1, p2, p3) ==
    LET vals == {p0, p3} \cup
                {CubicNum(p0, p1, p2, p3, t) \div (t[2] * t[2] * t[2]) :
                    t \in CubicRoots(p0, p1, p2, p3)}
    IN  CHOOSE v \in vals : \A w \in vals : v <= w

CubicHi(p0, p1, p2, p3) ==
    LET vals == {p0, p3} \cup
                {-((-CubicNum(p0, p1, p2, p3, t)) \div (t[2] * t[2] * t[2])) :
                    t \in CubicRoots(p0, p1, p2, p3)}
    IN  CHOOSE v \in vals : \A w \in vals : v >= w

\* CubicBez::from_points(px, py, x1, y1, x2, y2, x, y).bounding_box()
CurveBoundingBox(px, py, x1, y1, x2, y2, x, y) ==
    [x0 |-> CubicLo(px, x1, x2, x), x1 |-> CubicHi(px, x1, x2, x),
     y0 |-> CubicLo(py, y1, y2, y), y1 |-> CubicHi(py, y1, y2, y)]

\* Every extremum the model computes is an integer: no rounding happened.
CurveExact(px, py, x1, y1, x2, y2, x, y) ==
    /\ \A t \in CubicRoots(px, x1, x2, x) :
          CubicNum(px, x1, x2, x, t) % (t[2] * t[2] * t[2]) = 0
    /\ \A t \in CubicRoots(py, y1, y2, y) :
          CubicNum(py, y1, y2, y, t) % (t[2] * t[2] * t[2]) = 0

----------------------------------------------------------------------------
(* Rect::new: a rectangle needs a positive width and a positive height.    *)

NoRect == [some |-> FALSE, x |-> 0, y |-> 0, width |-> 0, height |-> 0]
RectNew(x, y, w, h) ==
    IF w > 0 /\ h > 0
    THEN [some |-> TRUE, x |-> x, y |-> y, width |-> w, height |-> h]
    ELSE NoRect

\* f64::is_fuzzy_zero on the integer grid
IsFuzzyZero(v) == v = 0

----------------------------------------------------------------------------
(* The running box of calc_bbox, calc_bbox_with_transform and has_bbox     *)

BoxState(px, py, minx, miny, maxx, maxy) ==
    [prev_x |-> px, prev_y |-> py,
     minx |-> minx, miny |-> miny, maxx |-> maxx, maxy |-> maxy]

\* pathdata.rs 428-442: the box starts at the first segment if it is a MoveTo,
\* and at (0, 0) otherwise.
BoxInit(first) ==
    IF first.kind = "M"
    THEN BoxState(first.x, first.y, first.x, first.y, first.x, first.y)
    ELSE BoxState(0, 0, 0, 0, 0, 0)

\* The MoveTo | LineTo arm (448-455): prev moves, then the extrema.
BoxLineArm(st, x, y) ==
    [st EXCEPT !.prev_x = x, !.prev_y = y,
               !.maxx = IF x > st.maxx THEN x ELSE st.maxx,
               !.minx = IF x > st.maxx THEN st.minx
                        ELSE IF x < st.minx THEN x ELSE st.minx,
               !.maxy = IF y > st.maxy THEN y ELSE st.maxy,
               !.miny = IF y > st.maxy THEN st.miny
                        ELSE IF y < st.miny THEN y ELSE st.miny]

\* The four comparisons of a curve's box against the running box (464-467).
BoxCurveExtend(st, r) ==
    [st EXCEPT !.minx = IF r.x0 < st.minx THEN r.x0 ELSE st.minx,
               !.maxx = IF r.x1 > st.maxx THEN r.x1 ELSE st.maxx,
               !.miny = IF r.y0 < st.miny THEN r.y0 ELSE st.miny,
               !.maxy = IF r.y1 > st.maxy THEN r.y1 ELSE st.maxy]

\* calc_bbox, one iteration of the loop (444-498).  The CurveTo arm moves
\* prev to the segment's end point BEFORE it builds the curve (458-461).
CalcBboxStep(st, seg) ==
    CASE seg.kind \in {"M", "L"} -> BoxLineArm(st, seg.x, seg.y)
      [] seg.kind = "C" ->
            LET moved == [st EXCEPT !.prev_x = seg.x, !.prev_y = seg.y]
                r == CurveBoundingBox(moved.prev_x, moved.prev_y,
                                      seg.x1, seg.y1, seg.x2, seg.y2, seg.x, seg.y)
            IN  BoxCurveExtend(moved, r)
      [] OTHER -> st

RECURSIVE CalcBboxLoop(_, _, _)
CalcBboxLoop(st, segments, i) ==
    IF i > Len(segments) THEN st
    ELSE CalcBboxLoop(CalcBboxStep(st, segments[i]), segments, i + 1)

\* The running box calc_bbox ends with (428-499); segments is not empty.
CalcBboxExtent(segments) == CalcBboxLoop(BoxInit(segments[1]), segments, 1)

\* calc_bbox (425-505); segments is not empty.
CalcBbox(segments) ==
    LET st == CalcBboxExtent(segments)
    IN  RectNew(st.minx, st.miny, st.maxx - st.minx, st.maxy - st.miny)

\* has_bbox, one iteration of the loop without the test that ends it
\* (622-672).  The CurveTo arm leaves prev where it was (635) and compares
\* r.x0, not r.y0, with miny (640).
HasBboxStep(st, seg) ==
    CASE seg.kind \in {"M", "L"} -> BoxLineArm(st, seg.x, seg.y)
      [] seg.kind = "C" ->
            LET r == CurveBoundingBox(st.prev_x, st.prev_y,
                                      seg.x1, seg.y1, seg.x2, seg.y2, seg.x, seg.y)
            IN  [st EXCEPT !.minx = IF r.x0 < st.minx THEN r.x0 ELSE st.minx,
                           !.maxx = IF r.x1 > st.maxx THEN r.x1 ELSE st.maxx,
                           !.miny = IF r.x0 < st.miny THEN r.y0 ELSE st.miny,
                           !.maxy = IF r.y1 > st.maxy THEN r.y1 ELSE st.maxy]
      [] OTHER -> st

\* The test with "or" between the two extents instead of "and".
HasBboxTestEither(st) ==
    ~(IsFuzzyZero(st.maxx - st.minx) /\ IsFuzzyZero(st.maxy - st.miny))

\* The test at the end of each iteration (674-678).
HasBboxTest(st) ==
    ~(IsFuzzyZero(st.maxx - st.minx) \/ IsFuzzyZero(st.maxy - st.miny))

RECURSIVE HasBboxLoop(_, _, _)
HasBboxLoop(st, segments, i) ==
    IF i > Len(segments) THEN FALSE
    ELSE LET nxt == HasBboxStep(st, segments[i])
         IN  IF HasBboxTest(nxt) THEN TRUE
             ELSE HasBboxLoop(nxt, segments, i + 1)

\* has_bbox (602-682); segments is not empty.
HasBbox(segments) == HasBboxLoop(BoxInit(segments[1]), segments, 1)

----------------------------------------------------------------------------
(* TransformedPath (964-1051), cubic-only configuration *)

\* TransformedPath::next (987-1050): the segment it returns for segments[idx]
\* and the prev_pt it leaves (the untransformed end point).
TransformedNext(segments, ts, idx, prev_pt) ==
    LET seg == segments[idx]
        p1 == Apply(ts, seg.x1, seg.y1)
        p2 == Apply(ts, seg.x2, seg.y2)
        p  == Apply(ts, seg.x, seg.y)
    IN  CASE seg.kind = "M" -> [seg |-> MoveTo(p[1], p[2]), prev_pt |-> <<seg.x, seg.y>>]
          [] seg.kind = "L" -> [seg |-> LineTo(p[1], p[2]), prev_pt |-> <<seg.x, seg.y>>]
          [] seg.kind = "C" ->
                [seg |-> CurveTo(p1[1], p1[2], p2[1], p2[2], p[1], p[2]),
                 prev_pt |-> <<seg.x, seg.y>>]
          [] OTHER -> [seg |-> ClosePath, prev_pt |-> prev_pt]

\* The segments the iterator yields from idx on, up to `count` of them.
RECURSIVE TransformedTake(_, _, _, _, _)
TransformedTake(segments, ts, idx, prev_pt, count) ==
    IF idx > Len(segments) \/ count = 0 THEN <<>>
    ELSE LET n == TransformedNext(segments, ts, idx, prev_pt)
         IN  <<n.seg>> \o TransformedTake(segments, ts, idx + 1, n.prev_pt, count - 1)

\* TransformedPath::new(segments, ts) iterated to exhaustion (980).
TransformedPath(segments, ts) ==
    TransformedTake(segments, ts, 1, <<0, 0>>, Len(segments))

\* calc_bbox_with_transform, one iteration (533-583): the CurveTo arm leaves
\* prev where the last MoveTo or LineTo put it (546).
CalcBboxTsStep(st, seg) ==
    CASE seg.kind \in {"M", "L"} -> BoxLineArm(st, seg.x, seg.y)
      [] seg.kind = "C" ->
            BoxCurveExtend(st, CurveBoundingBox(st.prev_x, st.prev_y,
                                   seg.x1, seg.y1, seg.x2, seg.y2, seg.x, seg.y))
      [] OTHER -> st

RECURSIVE CalcBboxTsLoop(_, _, _)
CalcBboxTsLoop(st, segments, i) ==
    IF i > Len(segments) THEN st
    ELSE CalcBboxTsLoop(CalcBboxTsStep(st, segments[i]), segments, i + 1)

\* calc_bbox_with_transform (509-600) past its debug_assert.  stroke is the
\* stroke width, 0 for no stroke.
CalcBboxWithTransform(segments, ts, stroke) ==
    LET first == TransformedTake(segments, ts, 1, <<0, 0>>, 1)
        st0 == IF first # <<>> /\ first[1].kind = "M"
               THEN BoxInit(first[1]) ELSE BoxState(0, 0, 0, 0, 0, 0)
        st == CalcBboxTsLoop(st0, TransformedPath(segments, ts), 1)
        w == stroke \div 2
        minx == st.minx - w
        miny == st.miny - w
        maxx == st.maxx + w
        maxy == st.maxy + w
    IN  RectNew(minx, miny, maxx - minx, maxy - miny)

----------------------------------------------------------------------------
(* calc_length (684-756).  A length is the sum of the terms the loop adds,  *)
(* kept as the sequence of those terms: a Line from the running point, a   *)
(* cubic from the running point, or the closing Line back to the start.    *)

LineTerm(px, py, x, y) ==
    [kind |-> "line", px |-> px, py |-> py,
     x1 |-> 0, y1 |-> 0, x2 |-> 0, y2 |-> 0, x |-> x, y |-> y]
CurveTerm(px, py, x1, y1, x2, y2, x, y) ==
    [kind |-> "curve", px |-> px, py |-> py,
     x1 |-> x1, y1 |-> y1, x2 |-> x2, y2 |-> y2, x |-> x, y |-> y]

\* 687-693: calc_length panics unless the first segment is a MoveTo (an
\* empty slice fails the debug_assert or the index).
CalcLengthPanics(segments) == segments = <<>> \/ segments[1].kind # "M"

\* The loop of calc_length without the break of its MoveTo arm.
RECURSIVE CalcLengthLoopNoMoveBreak(_, _, _, _, _, _)
CalcLengthLoopNoMoveBreak(segments, i, prev, start, is_first_seg, length) ==
    IF i > Len(segments) THEN length
    ELSE LET seg == segments[i] IN
         CASE seg.kind = "M" ->
                CalcLengthLoopNoMoveBreak(segments, i + 1, prev, start, FALSE, length)
           [] seg.kind = "L" ->
                CalcLengthLoopNoMoveBreak(segments, i + 1, <<seg.x, seg.y>>, start, FALSE,
                    Append(length, LineTerm(prev[1], prev[2], seg.x, seg.y)))
           [] seg.kind = "C" ->
                CalcLengthLoopNoMoveBreak(segments, i + 1, <<seg.x, seg.y>>, start, FALSE,
                    Append(length, CurveTerm(prev[1], prev[2], seg.x1, seg.y1,
                                             seg.x2, seg.y2, seg.x, seg.y)))
           [] OTHER ->
                Append(length, LineTerm(prev[1], prev[2], start[1], start[2]))

RECURSIVE CalcLengthLoop(_, _, _, _, _, _)
CalcLengthLoop(segments, i, prev, start, is_first_seg, length) ==
    IF i > Len(segments) THEN length
    ELSE LET seg == segments[i] IN
         CASE seg.kind = "M" ->
                IF ~is_first_seg THEN length
                ELSE CalcLengthLoop(segments, i + 1, prev, start, FALSE, length)
           [] seg.kind = "L" ->
                CalcLengthLoop(segments, i + 1, <<seg.x, seg.y>>, start, FALSE,
                    Append(length, LineTerm(prev[1], prev[2], seg.x, seg.y)))
           [] seg.kind = "C" ->
                CalcLengthLoop(segments, i + 1, <<seg.x, seg.y>>, start, FALSE,
                    Append(length, CurveTerm(prev[1], prev[2], seg.x1, seg.y1,
                                             seg.x2, seg.y2, seg.x, seg.y)))
           [] OTHER ->
                Append(length, LineTerm(prev[1], prev[2], start[1], start[2]))

\* calc_length (684-756) for a slice that starts with MoveTo.
CalcLength(segments) ==
    LET p == <<segments[1].x, segments[1].y>>
    IN  CalcLengthLoop(segments, 1, p, p, TRUE, <<>>)

----------------------------------------------------------------------------
(* transform_path (895-961), cubic-only configuration *)

\* transform_path without its "!segments.is_empty()" test: segments[0] of an
\* empty slice is out of bounds.
TransformPathPanicsNoEmptyTest(segments) ==
    segments = <<>> \/ segments[1].kind # "M"

\* 899-905: a non-empty slice must start with MoveTo.
TransformPathPanics(segments) == segments # <<>> /\ segments[1].kind # "M"

TransformSeg(seg, ts) ==
    LET p1 == Apply(ts, seg.x1, seg.y1)
        p2 == Apply(ts, seg.x2, seg.y2)
        p  == Apply(ts, seg.x, seg.y)
    IN  CASE seg.kind = "M" -> MoveTo(p[1], p[2])
          [] seg.kind = "L" -> LineTo(p[1], p[2])
          [] seg.kind = "C" -> CurveTo(p1[1], p1[2], p2[1], p2[2], p[1], p[2])
          [] OTHER -> seg

\* The slice after transform_path returned.
TransformPath(segments, ts) ==
    [i \in 1..Len(segments) |-> TransformSeg(segments[i], ts)]

----------------------------------------------------------------------------
(* last_pos (222-236) and the conversions of push_quad_to and push_arc_to  *)

\* expect("path must not be empty") and panic!("the previous segment must be M/L/C")
LastPosPanics(p) == p = <<>> \/ p[Len(p)].kind = "Z"
LastPos(p) == <<p[Len(p)].x, p[Len(p)].y>>

\* quad_to_curve (1055-1066)
QuadCalc(n1, n2) == (n1 + n2 * 2) \div 3
QuadToCurve(px, py, x1, y1, x, y) ==
    CurveTo(QuadCalc(px, x1), QuadCalc(py, y1), QuadCalc(x, x1), QuadCalc(y, y1), x, y)

\* kurbo::Arc::from_svg_arc answers None for a straight line: a radius that
\* is zero, or end points that coincide (convert_svg_arc, 156-175).
ConvertSvgArcIsNone(prev_x, prev_y, rx, ry, x, y) ==
    rx = 0 \/ ry = 0 \/ (prev_x = x /\ prev_y = y)

\* Arc::to_cubic_beziers(0.1, ..) (194-196): one or two cubics, the last of
\* which ends at the arc's end point.  Their control points are whatever the
\* flattening computes; the model lets them be any grid points.
ArcCubics(x, y) ==
    {<<CurveTo(c[1], c[2], c[1], c[2], x, y)>> : c \in CtrlPts}
    \cup {<<CurveTo(c[1], c[2], c[1], c[2], c[1], c[2]),
            CurveTo(c[1], c[2], c[1], c[2], x, y)>> : c \in CtrlPts}

----------------------------------------------------------------------------
(* SubPathIter (334-370) *)

\* Variants of the scan that differ from the source, to test the claims
\* about subpaths(): the MoveTo arm without its "i != self.index" test;
\* the ClosePath arm without its break; the MoveTo arm breaking after the
\* MoveTo instead of before it.
RECURSIVE SubPathScanNoIndexTest(_, _, _)
SubPathScanNoIndexTest(p, index, i) ==
    IF i > Len(p) THEN i
    ELSE CASE p[i].kind = "M" -> i
           [] p[i].kind = "Z" -> i + 1
           [] OTHER -> SubPathScanNoIndexTest(p, index, i + 1)

RECURSIVE SubPathScanNoCloseBreak(_, _, _)
SubPathScanNoCloseBreak(p, index, i) ==
    IF i > Len(p) THEN i
    ELSE CASE p[i].kind = "M" ->
                IF i # index THEN i ELSE SubPathScanNoCloseBreak(p, index, i + 1)
           [] OTHER -> SubPathScanNoCloseBreak(p, index, i + 1)

RECURSIVE SubPathScanMoveInclusive(_, _, _)
SubPathScanMoveInclusive(p, index, i) ==
    IF i > Len(p) THEN i
    ELSE CASE p[i].kind = "M" ->
                IF i # index THEN i + 1
                ELSE SubPathScanMoveInclusive(p, index, i + 1)
           [] p[i].kind = "Z" -> i + 1
           [] OTHER -> SubPathScanMoveInclusive(p, index, i + 1)

\* The while loop of SubPathIter::next (347-363): the index it stops at
\* (0-based index i of the source, kept 1-based here).
RECURSIVE SubPathScan(_, _, _)
SubPathScan(p, index, i) ==
    IF i > Len(p) THEN i
    ELSE CASE p[i].kind = "M" ->
                IF i # index THEN i ELSE SubPathScan(p, index, i + 1)
           [] p[i].kind = "Z" -> i + 1
           [] OTHER -> SubPathScan(p, index, i + 1)

----------------------------------------------------------------------------
(* The path engine as a state machine: one PathData, built by the push_*   *)
(* methods and changed by transform; a SubPathIter over it; the queries.   *)
(* The program is single-threaded: an operation runs from call to return,  *)
(* res holds what it returned until the caller drops it, and the next call *)
(* starts after that.  A mutation ends the iterator's borrow.  A panic!    *)
(* ends the run: nothing in the library catches it.                        *)

NoIter == [live |-> FALSE, index |-> 0, cur |-> <<>>, out |-> <<>>, done |-> FALSE]
Res(op, ok, on, val) == [op |-> op, ok |-> ok, on |-> on, val |-> val]
NoRes == Res("none", TRUE, <<>>, 0)
Strokes == {0, 24}

\* An empty PathData; no tree is being rendered.
PathInit ==
    /\ path = <<>>
    /\ it = NoIter
    /\ res = NoRes
    /\ aborted = FALSE
    /\ kind = <<>>
    /\ parent = <<>>
    /\ rstate = "ready"
    /\ ctx = <<>>
    /\ canvas = <<>>
    /\ stack = <<>>
    /\ trace = <<>>
    /\ last = [g |-> 0]
    /\ rejected = {}
    /\ fields = {}
    /\ opacity = <<>>

\* No call is in progress and no returned value is held.
Idle == ~aborted /\ res = NoRes

\* Vec::push through one of the push_* methods (108-122, 206-208)
Push(seg) ==
    /\ path' = Append(path, seg)
    /\ it' = NoIter
    /\ UNCHANGED <<res, aborted>>

\* A failure handed back to the caller as an error value, which is not what
\* panic! does.
PanicAsError(op, on) ==
    /\ res' = Res(op, FALSE, on, 0)
    /\ UNCHANGED <<path, it, aborted>>

\* A panic! inside operation op: nothing was written, nothing is returned.
Panic(op, on) ==
    /\ aborted' = TRUE
    /\ res' = Res(op, FALSE, on, 0)
    /\ UNCHANGED <<path, it>>

Returns(op, on, val) ==
    /\ res' = Res(op, TRUE, on, val)
    /\ UNCHANGED <<path, it, aborted>>

\* The caller drops the value an operation returned.
drop_result ==
    /\ UNCHANGED renderVars
    /\ ~aborted /\ res # NoRes
    /\ res' = NoRes
    /\ UNCHANGED <<path, it, aborted>>

push_move_to ==
    /\ UNCHANGED renderVars
    /\ Idle /\ Len(path) < MaxLen
    /\ \E p \in Pts : Push(MoveTo(p[1], p[2]))

push_line_to ==
    /\ UNCHANGED renderVars
    /\ Idle /\ Len(path) < MaxLen
    /\ \E p \in Pts : Push(LineTo(p[1], p[2]))

push_curve_to ==
    /\ UNCHANGED renderVars
    /\ Idle /\ Len(path) < MaxLen
    /\ \E c \in CtrlPts, p \in Pts : Push(CurveTo(c[1], c[2], c[1], c[2], p[1], p[2]))

push_close_path ==
    /\ UNCHANGED renderVars
    /\ Idle /\ Len(path) < MaxLen
    /\ Push(ClosePath)

\* push_quad_to (127-131)
push_quad_to ==
    /\ UNCHANGED renderVars
    /\ Idle /\ Len(path) < MaxLen
    /\ \E c \in CtrlPts, p \in QuadEnds :
          IF LastPosPanics(path) THEN Panic("push_quad_to", path)
          ELSE LET prev == LastPos(path)
               IN  Push(QuadToCurve(prev[1], prev[2], c[1], c[2], p[1], p[2]))

\* push_arc_to, cubic-only configuration (181-202)
push_arc_to ==
    /\ UNCHANGED renderVars
    /\ Idle /\ Len(path) < MaxLen
    /\ \E rx \in Coords, ry \in Coords, p \in Pts :
          IF LastPosPanics(path) THEN Panic("push_arc_to", path)
          ELSE LET prev == LastPos(path) IN
               IF ConvertSvgArcIsNone(prev[1], prev[2], rx, ry, p[1], p[2])
               THEN Push(LineTo(p[1], p[2]))
               ELSE \E cs \in ArcCubics(p[1], p[2]) :
                       /\ Len(path) + Len(cs) <= MaxLen
                       /\ path' = path \o cs
                       /\ it' = NoIter
                       /\ UNCHANGED <<res, aborted>>

\* subpaths() (307-312)
subpaths ==
    /\ UNCHANGED renderVars
    /\ Idle
    /\ it' = [live |-> TRUE, index |-> 0, cur |-> <<>>, out |-> <<>>, done |-> FALSE]
    /\ UNCHANGED <<path, res, aborted>>

\* SubPathIter::next (342-369)
SubPathIterNext ==
    /\ UNCHANGED renderVars
    /\ Idle /\ it.live /\ ~it.done
    /\ IF it.index = Len(path)
       THEN it' = [it EXCEPT !.done = TRUE, !.cur = <<>>]
       ELSE LET i == SubPathScan(path, it.index + 1, it.index + 1)
                slice == SubSeq(path, it.index + 1, i - 1)
            IN  it' = [it EXCEPT !.index = i - 1, !.cur = slice,
                                 !.out = Append(it.out, slice)]
    /\ UNCHANGED <<path, res, aborted>>

\* The queries, on a slice s: a PathData or a SubPathData.  A returned
\* result keeps the receiver as it was at the call and, where the call took
\* arguments, the arguments next to the value.
Length(s) ==
    IF CalcLengthPanics(s) THEN Panic("length", s)
    ELSE Returns("length", s, CalcLength(s))

\* An empty slice fails the debug_assert (426) or the index of segments[0].
Bbox(s) ==
    IF s = <<>> THEN Panic("bbox", s)
    ELSE Returns("bbox", s, CalcBbox(s))

HasBboxOf(s) ==
    IF s = <<>> THEN Panic("has_bbox", s)
    ELSE Returns("has_bbox", s, HasBbox(s))

\* On an empty slice the debug_assert of 514 panics in a debug build and is
\* absent in a release build, which goes on to Rect::new.
BboxWithTransform(s, ts, stroke, debug) ==
    IF s = <<>> /\ debug THEN Panic("bbox_with_transform", s)
    ELSE Returns("bbox_with_transform", s,
                 [ts |-> ts, stroke |-> stroke,
                  rect |-> CalcBboxWithTransform(s, ts, stroke)])

\* PathData::length (289-291)
length == Idle /\ ~it.live /\ Length(path) /\ UNCHANGED renderVars

\* PathData::bbox (259-261)
bbox == Idle /\ ~it.live /\ Bbox(path) /\ UNCHANGED renderVars

\* PathData::has_bbox (279-281)
has_bbox == Idle /\ ~it.live /\ HasBboxOf(path) /\ UNCHANGED renderVars

\* PathData::bbox_with_transform (267-273)
bbox_with_transform ==
    /\ UNCHANGED renderVars
    /\ Idle /\ ~it.live
    /\ \E ts \in Transforms, stroke \in Strokes, debug \in BOOLEAN :
          BboxWithTransform(path, ts, stroke, debug)

\* SubPathData::length (410-412), on the slice the iterator yielded last
sub_length == Idle /\ it.live /\ it.cur # <<>> /\ Length(it.cur) /\ UNCHANGED renderVars

\* SubPathData::bbox (382-384)
sub_bbox == Idle /\ it.live /\ it.cur # <<>> /\ Bbox(it.cur) /\ UNCHANGED renderVars

\* SubPathData::has_bbox (402-404)
sub_has_bbox == Idle /\ it.live /\ it.cur # <<>> /\ HasBboxOf(it.cur) /\ UNCHANGED renderVars

\* transform() (295-297)
transform ==
    /\ UNCHANGED renderVars
    /\ Idle
    /\ \E ts \in Transforms :
          IF TransformPathPanics(path) THEN Panic("transform", path)
          ELSE /\ path' = TransformPath(path, ts)
               /\ it' = NoIter
               /\ res' = Res("transform", TRUE, path, ts)
               /\ UNCHANGED aborted

\* transform_from() (301-303); &mut self[offset..] needs offset <= len.
transform_from ==
    /\ UNCHANGED renderVars
    /\ Idle
    /\ \E offset \in 0..Len(path), ts \in Transforms :
          LET tail == SubSeq1(path, offset + 1) IN
          IF TransformPathPanics(tail) THEN Panic("transform_from", tail)
          ELSE /\ path' = SubSeq(path, 1, offset) \o TransformPath(tail, ts)
               /\ it' = NoIter
               /\ res' = Res("transform_from", TRUE, path,
                            [offset |-> offset, ts |-> ts])
               /\ UNCHANGED aborted

\* Building a path and querying it.
PathNext ==
    \/ push_move_to \/ push_line_to \/ push_curve_to \/ push_close_path
    \/ push_quad_to \/ push_arc_to
    \/ length \/ bbox \/ has_bbox \/ bbox_with_transform
    \/ transform \/ transform_from
    \/ drop_result

SpecPath == PathInit /\ [][PathNext]_vars

\* Building a path and iterating its subpaths.
SubNext ==
    \/ push_move_to \/ push_line_to \/ push_curve_to \/ push_close_path
    \/ push_quad_to \/ push_arc_to
    \/ subpaths \/ SubPathIterNext
    \/ sub_length \/ sub_bbox \/ sub_has_bbox
    \/ drop_result

SpecSub == PathInit /\ [][SubNext]_vars

----------------------------------------------------------------------------
(* Querying and transforming a path that is already built.  The paths are  *)
(* short and drawn over end points with three coordinate values per axis   *)
(* and one control point, a set on which every extremum of every cubic the *)
(* box computations build is a rational the integer arithmetic gets        *)
(* exactly.                                                                *)

GeomPts == {<<0, 36>>, <<36, 0>>, <<144, 144>>}
GeomCtrl == <<0, 0>>

GeomSegs ==
    {MoveTo(p[1], p[2]) : p \in GeomPts}
    \cup {LineTo(p[1], p[2]) : p \in GeomPts}
    \cup {CurveTo(GeomCtrl[1], GeomCtrl[2], GeomCtrl[1], GeomCtrl[2], p[1], p[2]) :
              p \in GeomPts}
    \cup {ClosePath}

GeomPaths == UNION {[1..n -> GeomSegs] : n \in 1..MaxLen}

\* A PathData holding one of the paths; no tree is being rendered.
GeomInit ==
    /\ path \in GeomPaths
    /\ it = NoIter
    /\ res = NoRes
    /\ aborted = FALSE
    /\ kind = <<>>
    /\ parent = <<>>
    /\ rstate = "ready"
    /\ ctx = <<>>
    /\ canvas = <<>>
    /\ stack = <<>>
    /\ trace = <<>>
    /\ last = [g |-> 0]
    /\ rejected = {}
    /\ fields = {}
    /\ opacity = <<>>

GeomNext ==
    \/ bbox \/ bbox_with_transform
    \/ transform \/ transform_from
    \/ drop_result

SpecGeom == GeomInit /\ [][GeomNext]_vars

----------------------------------------------------------------------------
(* The arc-preserving configuration (feature "accurate-arcs"): ArcTo is a  *)
(* segment of its own.                                                     *)
(*                                                                         *)
(* An f64 that holds an angle is the number n * (pi/180)^lvl: a rotation   *)
(* pushed as n degrees has lvl 0, and f64::to_radians, which multiplies by *)
(* pi/180, raises lvl by one.  Zero is zero at every level.  The radian    *)
(* angles whose sine and cosine are taken are whole quarter turns.         *)

Num(n, lvl) == IF n = 0 THEN [n |-> 0, lvl |-> 0] ELSE [n |-> n, lvl |-> lvl]
ToRadians(v) == Num(v.n, v.lvl + 1)

ArcTo(rx, ry, x_axis_rotation, large_arc, sweep, x, y) ==
    [kind |-> "A", rx |-> rx, ry |-> ry, x_axis_rotation |-> x_axis_rotation,
     large_arc |-> large_arc, sweep |-> sweep, x |-> x, y |-> y]

\* The quarter turns (0..3) of a radian angle n * pi/180.
QuarterTurns(v) == (v.n \div 90) % 4
Cos4(q) == CASE q = 0 -> 1 [] q = 2 -> -1 [] OTHER -> 0
Sin4(q) == CASE q = 1 -> 1 [] q = 3 -> -1 [] OTHER -> 0

\* Vec2::hypot
Hypot(vx, vy) == ISqrt(vx * vx + vy * vy)

\* Vec2::atan2 of an axis-parallel vector, a radian angle in (-pi, pi].
Atan2(vx, vy) ==
    CASE vx = 0 /\ vy > 0 -> Num(90, 1)
      [] vx = 0 /\ vy < 0 -> Num(-90, 1)
      [] vy = 0 /\ vx < 0 -> Num(180, 1)
      [] OTHER -> Num(0, 1)

\* is_straight_line without its comparison of the end points.
IsStraightLineByRadii(px, py, rx, ry, x, y) == rx = 0 \/ ry = 0

\* kurbo::SvgArc::is_straight_line: a radius of zero or coincident end points.
IsStraightLine(px, py, rx, ry, x, y) == rx = 0 \/ ry = 0 \/ (px = x /\ py = y)

NoArc == [some |-> FALSE]

\* convert_svg_arc (156-175): kurbo::Arc::from_svg_arc of the SvgArc whose
\* x_rotation is x_axis_rotation.to_radians() (169).  Of the centerpoint arc
\* the model keeps the two end points, the radii after kurbo's enlargement
\* of radii too small for the chord, the rotation, the sign of the sweep
\* angle (that of the sweep flag) and whether it exceeds a half turn.
ConvertSvgArc(px, py, rx, ry, x_axis_rotation, large_arc, sweep, x, y) ==
    LET xr == ToRadians(x_axis_rotation)
        q == QuarterTurns(xr)
        dx == px - x
        dy == py - y
        p2x == Cos4(q) * dx + Sin4(q) * dy
        p2y == Cos4(q) * dy - Sin4(q) * dx
        arx == Abs(rx)
        ary == Abs(ry)
        sum == p2x * p2x * ary * ary + p2y * p2y * arx * arx
        over == sum > 4 * arx * arx * ary * ary
    IN  IF IsStraightLine(px, py, rx, ry, x, y) THEN NoArc
        ELSE [some |-> TRUE,
              from |-> <<px, py>>, to |-> <<x, y>>,
              rx |-> IF over THEN ISqrt(sum) \div (2 * ary) ELSE arx,
              ry |-> IF over THEN ISqrt(sum) \div (2 * arx) ELSE ary,
              x_rotation |-> xr,
              positive |-> sweep,
              over_half |-> large_arc /\ ~over]

\* The sign test taken on the diagonal alone, without the b and c terms.
FlipHandednessByDiagonal(ts) == ts.a * ts.d < 0

\* arc_util::does_transform_flip_handedness (767-776)
DoesTransformFlipHandedness(ts) ==
    LET typical_x == <<ts.d, -ts.c>>
    IN  typical_x[1] * ts.a + typical_x[2] * ts.b < 0

\* arc_util::transform_centerpoint_arc (779-833).  The transformed center
\* carries the arc's points with it.
TransformCenterpointArc(arc, ts) ==
    LET q == QuarterTurns(arc.x_rotation)
        rvx == arc.rx * Cos4(q)
        rvy == arc.rx * Sin4(q)
        svx == -arc.ry * Sin4(q)
        svy == arc.ry * Cos4(q)
        rtx == ts.a * rvx + ts.c * rvy
        rty == ts.b * rvx + ts.d * rvy
        stx == ts.a * svx + ts.c * svy
        sty == ts.b * svx + ts.d * svy
        flip == DoesTransformFlipHandedness(ts)
    IN  [arc EXCEPT !.from = Apply(ts, arc.from[1], arc.from[2]),
                    !.to = Apply(ts, arc.to[1], arc.to[2]),
                    !.rx = Hypot(rtx, rty),
                    !.ry = Hypot(stx, sty),
                    !.x_rotation = Atan2(rtx, rty),
                    !.positive = IF flip THEN ~arc.positive ELSE arc.positive]

\* kurbo::SvgArc::from_arc (866): back to the end point form.
SvgArcFromArc(arc) ==
    [some |-> TRUE, from |-> arc.from, to |-> arc.to,
     rx |-> arc.rx, ry |-> arc.ry, x_rotation |-> arc.x_rotation,
     large_arc |-> arc.over_half, sweep |-> arc.positive]

\* arc_util::transform_svg_arc (837-871)
TransformSvgArc(px, py, rx, ry, x_axis_rotation, large_arc, sweep, x, y, ts) ==
    LET arc == ConvertSvgArc(px, py, rx, ry, x_axis_rotation, large_arc, sweep, x, y)
    IN  IF arc.some THEN SvgArcFromArc(TransformCenterpointArc(arc, ts))
        ELSE NoArc

\* transform_path, the ArcTo arm (928-955): the arc is converted from the
\* running _prev, which the arms before it left at a TRANSFORMED end point
\* (910-912, 915-917, 922-924, 946-947), and the rotation written back is
\* svg_arc_t.x_rotation, a number of radians (943).
TransformArcArm(seg, ts, prev) ==
    LET t == TransformSvgArc(prev[1], prev[2], seg.rx, seg.ry, seg.x_axis_rotation,
                             seg.large_arc, seg.sweep, seg.x, seg.y, ts)
        p == Apply(ts, seg.x, seg.y)
    IN  IF t.some
        THEN ArcTo(t.rx, t.ry, t.x_rotation, t.large_arc, t.sweep, t.to[1], t.to[2])
        ELSE [seg EXCEPT !.x = p[1], !.y = p[2]]

\* transform_path (895-961) with the ArcTo arm, from segment i on.
RECURSIVE TransformPathArcsLoop(_, _, _, _)
TransformPathArcsLoop(segments, ts, i, prev) ==
    IF i > Len(segments) THEN <<>>
    ELSE LET seg == segments[i]
             new == CASE seg.kind = "A" -> TransformArcArm(seg, ts, prev)
                      [] OTHER -> TransformSeg(seg, ts)
             nprev == IF seg.kind = "Z" THEN prev ELSE <<new.x, new.y>>
         IN  <<new>> \o TransformPathArcsLoop(segments, ts, i + 1, nprev)

\* The slice after transform_path returned; a non-empty slice starts with
\* MoveTo.
TransformPathArcs(segments, ts) ==
    IF segments = <<>> THEN <<>>
    ELSE TransformPathArcsLoop(segments, ts, 1, <<segments[1].x, segments[1].y>>)

\* TransformedPath::next (987-1050) with the ArcTo arm (1006-1034): the arc
\* is converted from prev_pt, and prev_pt becomes the transformed end point
\* after an arc, the untransformed one after a degenerate arc, which is
\* returned as a LineTo.
TransformedNextArcs(segments, ts, idx, prev_pt) ==
    LET seg == segments[idx] IN
    IF seg.kind # "A" THEN TransformedNext(segments, ts, idx, prev_pt)
    ELSE LET t == TransformSvgArc(prev_pt[1], prev_pt[2], seg.rx, seg.ry,
                                  seg.x_axis_rotation, seg.large_arc, seg.sweep,
                                  seg.x, seg.y, ts)
             p == Apply(ts, seg.x, seg.y)
         IN  IF t.some
             THEN [seg |-> ArcTo(t.rx, t.ry, t.x_rotation, t.large_arc, t.sweep,
                                 t.to[1], t.to[2]),
                   prev_pt |-> t.to]
             ELSE [seg |-> LineTo(p[1], p[2]), prev_pt |-> <<seg.x, seg.y>>]

RECURSIVE TransformedTakeArcs(_, _, _, _)
TransformedTakeArcs(segments, ts, idx, prev_pt) ==
    IF idx > Len(segments) THEN <<>>
    ELSE LET n == TransformedNextArcs(segments, ts, idx, prev_pt)
         IN  <<n.seg>> \o TransformedTakeArcs(segments, ts, idx + 1, n.prev_pt)

\* TransformedPath::new(segments, ts) iterated to exhaustion.
TransformedPathArcs(segments, ts) == TransformedTakeArcs(segments, ts, 1, <<0, 0>>)

\* The paths: end points on one line, an ellipse wide enough for every
\* chord and a radius of zero, rotations of 0 and 90 degrees.
ArcPts == {<<0, 0>>, <<36, 0>>}
ArcRadii == {<<0, 36>>, <<72, 36>>}
ArcRotations == {Num(0, 0), Num(90, 0)}
ArcFlags == {<<FALSE, TRUE>>, <<TRUE, FALSE>>}
MirrorX == Ts(-1, 0, 0, 1, 36, 0)
ArcTransforms == {Identity, MirrorX}

ArcSegs ==
    {MoveTo(p[1], p[2]) : p \in ArcPts}
    \cup {LineTo(p[1], p[2]) : p \in ArcPts}
    \cup {CurveTo(0, 0, 0, 0, p[1], p[2]) : p \in ArcPts}
    \cup {ArcTo(r[1], r[2], rot, fl[1], fl[2], p[1], p[2]) :
             r \in ArcRadii, rot \in ArcRotations, fl \in ArcFlags, p \in ArcPts}
    \cup {ClosePath}

ArcPaths ==
    {s \in UNION {[1..n -> ArcSegs] : n \in 1..MaxLen} : s[1].kind = "M"}

\* Every angle whose sine and cosine the conversions would take is a whole
\* number of quarter turns: no ArcTo holds a rotation written back by an
\* earlier transform.
ArcExact(segments) ==
    \A i \in 1..Len(segments) :
        segments[i].kind = "A" => segments[i].x_axis_rotation.lvl = 0

\* calc_bbox, one iteration with the ArcTo arm (470-493).  Of that arm the
\* model has the None branch (484-492), which is the LineTo arm; the box of
\* a proper arc is that of kurbo's flattening, which the model does not
\* compute, so bbox_arcs is taken on slices whose arcs are straight lines.
CalcBboxArcsStep(st, seg) ==
    IF seg.kind # "A" THEN CalcBboxStep(st, seg)
    ELSE IF IsStraightLine(st.prev_x, st.prev_y, seg.rx, seg.ry, seg.x, seg.y)
         THEN BoxLineArm(st, seg.x, seg.y)
         ELSE [st EXCEPT !.prev_x = seg.x, !.prev_y = seg.y]

RECURSIVE CalcBboxArcsLoop(_, _, _)
CalcBboxArcsLoop(st, segments, i) ==
    IF i > Len(segments) THEN st
    ELSE CalcBboxArcsLoop(CalcBboxArcsStep(st, segments[i]), segments, i + 1)

\* calc_bbox (425-505) of the arc-preserving configuration.
CalcBboxArcs(segments) ==
    LET st == CalcBboxArcsLoop(BoxInit(segments[1]), segments, 1)
    IN  RectNew(st.minx, st.miny, st.maxx - st.minx, st.maxy - st.miny)

\* No ArcTo of the slice converts to an arc from the point calc_bbox has
\* reached when it comes to it.
RECURSIVE NoProperArc(_, _, _)
NoProperArc(segments, i, prev) ==
    IF i > Len(segments) THEN TRUE
    ELSE LET seg == segments[i] IN
         IF seg.kind = "Z" THEN NoProperArc(segments, i + 1, prev)
         ELSE /\ seg.kind = "A" =>
                     IsStraightLine(prev[1], prev[2], seg.rx, seg.ry, seg.x, seg.y)
              /\ NoProperArc(segments, i + 1, <<seg.x, seg.y>>)

\* The cubics of Arc::to_cubic_beziers(0.1, ..) measured one after the other
\* from the running point (725-737), as one term.
ArcTerm(px, py, seg) == [kind |-> "arc", px |-> px, py |-> py, arc |-> seg]

\* calc_length (684-756) with the ArcTo arm (722-746).
RECURSIVE CalcLengthArcsLoop(_, _, _, _, _, _)
CalcLengthArcsLoop(segments, i, prev, start, is_first_seg, total) ==
    IF i > Len(segments) THEN total
    ELSE LET seg == segments[i] IN
         CASE seg.kind = "M" ->
                IF ~is_first_seg THEN total
                ELSE CalcLengthArcsLoop(segments, i + 1, prev, start, FALSE, total)
           [] seg.kind = "L" ->
                CalcLengthArcsLoop(segments, i + 1, <<seg.x, seg.y>>, start, FALSE,
                    Append(total, LineTerm(prev[1], prev[2], seg.x, seg.y)))
           [] seg.kind = "C" ->
                CalcLengthArcsLoop(segments, i + 1, <<seg.x, seg.y>>, start, FALSE,
                    Append(total, CurveTerm(prev[1], prev[2], seg.x1, seg.y1,
                                             seg.x2, seg.y2, seg.x, seg.y)))
           [] seg.kind = "A" ->
                CalcLengthArcsLoop(segments, i + 1, <<seg.x, seg.y>>, start, FALSE,
                    Append(total,
                        IF IsStraightLine(prev[1], prev[2], seg.rx, seg.ry, seg.x, seg.y)
                        THEN LineTerm(prev[1], prev[2], seg.x, seg.y)
                        ELSE ArcTerm(prev[1], prev[2], seg)))
           [] OTHER ->
                Append(total, LineTerm(prev[1], prev[2], start[1], start[2]))

CalcLengthArcs(segments) ==
    LET p == <<segments[1].x, segments[1].y>>
    IN  CalcLengthArcsLoop(segments, 1, p, p, TRUE, <<>>)

\* The slice holds no ArcTo: a PathData of the cubic-only configuration.
CubicOnly(segments) == \A i \in 1..Len(segments) : segments[i].kind # "A"

\* A PathData of the arc-preserving configuration; no tree is being rendered.
ArcInit ==
    /\ path \in ArcPaths
    /\ it = NoIter
    /\ res = NoRes
    /\ aborted = FALSE
    /\ kind = <<>>
    /\ parent = <<>>
    /\ rstate = "ready"
    /\ ctx = <<>>
    /\ canvas = <<>>
    /\ stack = <<>>
    /\ trace = <<>>
    /\ last = [g |-> 0]
    /\ rejected = {}
    /\ fields = {}
    /\ opacity = <<>>

\* transform() (295-297) in the arc-preserving configuration
transform_arcs ==
    /\ UNCHANGED renderVars
    /\ Idle /\ ArcExact(path)
    /\ \E ts \in ArcTransforms :
          IF TransformPathPanics(path) THEN Panic("transform", path)
          ELSE /\ path' = TransformPathArcs(path, ts)
               /\ it' = NoIter
               /\ res' = Res("transform", TRUE, path, ts)
               /\ UNCHANGED aborted

\* TransformedPath::new(&path, ts) collected (984-1051); the path is only
\* borrowed.
transformed_path_arcs ==
    /\ UNCHANGED renderVars
    /\ Idle /\ ArcExact(path)
    /\ \E ts \in ArcTransforms :
          Returns("transformed_path", path,
                  [ts |-> ts, out |-> TransformedPathArcs(path, ts)])

\* PathData::bbox (259-261) of the arc-preserving configuration.
bbox_arcs ==
    /\ UNCHANGED renderVars
    /\ Idle /\ NoProperArc(path, 1, <<0, 0>>)
    /\ Returns("bbox", path, CalcBboxArcs(path))

\* PathData::length (289-291) of the arc-preserving configuration.
length_arcs ==
    /\ UNCHANGED renderVars
    /\ Idle
    /\ Returns("length", path, CalcLengthArcs(path))

\* push_arc_to of the cubic-only configuration (181-202) on a path of that
\* configuration; the call is kept next to the path it left.
push_arc_to_cubic ==
    /\ UNCHANGED renderVars
    /\ Idle /\ Len(path) < MaxLen /\ CubicOnly(path)
    /\ \E r \in ArcRadii, rot \in ArcRotations, fl \in ArcFlags, p \in ArcPts :
          IF LastPosPanics(path) THEN Panic("push_arc_to", path)
          ELSE LET prev == LastPos(path)
                   call == [rx |-> r[1], ry |-> r[2], x_axis_rotation |-> rot,
                            large_arc |-> fl[1], sweep |-> fl[2],
                            x |-> p[1], y |-> p[2]]
               IN  /\ IF ConvertSvgArcIsNone(prev[1], prev[2], r[1], r[2], p[1], p[2])
                      THEN path' = Append(path, LineTo(p[1], p[2]))
                      ELSE \E cs \in ArcCubics(p[1], p[2]) :
                              /\ Len(path) + Len(cs) <= MaxLen
                              /\ path' = path \o cs
                   /\ it' = NoIter
                   /\ res' = Res("push_arc_to", TRUE, path, call)
                   /\ UNCHANGED aborted

ArcNext ==
    \/ transform_arcs \/ transformed_path_arcs
    \/ bbox_arcs \/ length_arcs
    \/ push_arc_to_cubic
    \/ drop_result

SpecArc == ArcInit /\ [][ArcNext]_vars

----------------------------------------------------------------------------
(* arc_util::does_transform_flip_handedness called on its own, under      *)
(* SpecHandedness                                                         *)

MaxCoef == 2
Coefs == (-MaxCoef)..MaxCoef
Translations == {0, 36}

\* The transforms a caller may hand over.
HandednessTransforms ==
    {Ts(a, b, c, d, e, f) : a \in Coefs, b \in Coefs, c \in Coefs, d \in Coefs,
                            e \in Translations, f \in Translations}

HandednessInit ==
    /\ path = <<>>
    /\ it = NoIter
    /\ res = NoRes
    /\ aborted = FALSE
    /\ kind = <<>>
    /\ parent = <<>>
    /\ rstate = "ready"
    /\ ctx = <<>>
    /\ canvas = <<>>
    /\ stack = <<>>
    /\ trace = <<>>
    /\ last = [g |-> 0]
    /\ rejected = {}
    /\ fields = {}
    /\ opacity = <<>>

does_transform_flip_handedness ==
    /\ UNCHANGED renderVars
    /\ Idle
    /\ \E ts \in HandednessTransforms :
          Returns("does_transform_flip_handedness", ts,
                  DoesTransformFlipHandedness(ts))

HandednessNext == does_transform_flip_handedness \/ drop_result

SpecHandedness == HandednessInit /\ [][HandednessNext]_vars

----------------------------------------------------------------------------
(* Claims about subpaths(), under SpecSub *)

RECURSIVE Flatten(_)
Flatten(ss) == IF ss = <<>> THEN <<>> ELSE Head(ss) \o Flatten(Tail(ss))

\* 1-based position in the path of the first segment of the k-th slice
RECURSIVE SliceStart(_, _)
SliceStart(out, k) == IF k = 1 THEN 1 ELSE SliceStart(out, k - 1) + Len(out[k - 1])

\* C4: the slices yielded so far are non-empty and concatenate to the part
\* of the path the iterator has passed, there are never more of them than
\* segments, and once the iterator is exhausted they concatenate to the
\* whole path.
C4_SubpathsConcat ==
    it.live =>
        /\ Flatten(it.out) = SubSeq(path, 1, it.index)
        /\ \A k \in 1..Len(it.out) : it.out[k] # <<>>
        /\ Len(it.out) <= Len(path)
        /\ it.done => Flatten(it.out) = path

C4_Witness ==
    /\ it.live /\ it.done
    /\ Len(path) = 3 /\ Len(it.out) >= 2
    /\ \E i \in 1..2 : path[i].kind = "Z"

\* C5: once the iterator is exhausted, the slices start exactly at segment
\* 1, at every later MoveTo and right after every ClosePath that is not the
\* last segment; a slice holds a ClosePath only as its last segment and a
\* MoveTo only as its first.
C5_SubpathBoundaries ==
    (it.live /\ it.done) =>
        /\ {SliceStart(it.out, k) : k \in 1..Len(it.out)} =
              {i \in 1..Len(path) :
                  \/ i = 1
                  \/ path[i].kind = "M"
                  \/ path[i - 1].kind = "Z"}
        /\ \A k \in 1..Len(it.out) : \A j \in 1..Len(it.out[k]) :
              /\ it.out[k][j].kind = "Z" => j = Len(it.out[k])
              /\ it.out[k][j].kind = "M" => j = 1

C5_Witness ==
    /\ it.live /\ it.done /\ Len(path) = 3
    /\ path[1].kind = "M" /\ path[2].kind = "Z" /\ path[3].kind = "M"
    /\ Len(it.out) = 2

\* Every ClosePath is the last segment or is followed by a MoveTo.
CloseThenMove(p) ==
    \A i \in 1..(Len(p) - 1) : p[i].kind = "Z" => p[i + 1].kind = "M"

\* C6 as stated: if the path starts with MoveTo, so does every slice.
C6_Original ==
    (it.live /\ path # <<>> /\ path[1].kind = "M") =>
        \A k \in 1..Len(it.out) : it.out[k][1].kind = "M"

\* C6 as amended: if the path starts with MoveTo and every ClosePath is last
\* or followed by a MoveTo, every slice starts with MoveTo, and length() of
\* a slice never finds a first segment that is not MoveTo.
C6_SubpathsStartWithMoveTo ==
    (it.live /\ path # <<>> /\ path[1].kind = "M" /\ CloseThenMove(path)) =>
        /\ \A k \in 1..Len(it.out) : it.out[k][1].kind = "M"
        /\ res.op = "length" => res.ok

C6_Witness ==
    /\ it.live /\ path # <<>> /\ path[1].kind = "M" /\ CloseThenMove(path)
    /\ Len(it.out) = 2 /\ path[2].kind = "Z"
    /\ res.op = "length" /\ res.ok /\ res.on = it.out[2]

----------------------------------------------------------------------------
(* Claims about the queries and the push methods, under SpecPath *)

\* The first segment after the initial MoveTo that ends the first subpath.
FirstStop(s) ==
    LET stops == {i \in 2..Len(s) : s[i].kind \in {"M", "Z"}}
    IN  IF stops = {} THEN Len(s) + 1
        ELSE CHOOSE i \in stops : \A j \in stops : i <= j

\* What segment j of the first subpath adds, from the end point of the
\* segment before it.
SegTerm(s, j) ==
    IF s[j].kind = "L"
    THEN LineTerm(s[j - 1].x, s[j - 1].y, s[j].x, s[j].y)
    ELSE CurveTerm(s[j - 1].x, s[j - 1].y,
                   s[j].x1, s[j].y1, s[j].x2, s[j].y2, s[j].x, s[j].y)

FirstSubpathLength(s) ==
    LET stop == FirstStop(s)
        body == [k \in 1..(stop - 2) |-> SegTerm(s, k + 1)]
    IN  IF stop <= Len(s) /\ s[stop].kind = "Z"
        THEN Append(body, LineTerm(s[stop - 1].x, s[stop - 1].y, s[1].x, s[1].y))
        ELSE body

\* C7: length() of a path that starts with MoveTo is the sum, in order, of
\* the lengths of the segments between the initial MoveTo and the first
\* later MoveTo or ClosePath (or the end), each measured from the end point
\* of the segment before it, plus, when a ClosePath stopped it, the line
\* back to the initial point; nothing after the stopping point is added.
C7_LengthFirstSubpath ==
    (res.op = "length" /\ res.ok) => res.val = FirstSubpathLength(res.on)

C7_Witness ==
    /\ res.op = "length" /\ res.ok /\ Len(res.on) = 3
    /\ res.on[2].kind = "C" /\ res.on[3].kind = "Z"
    /\ Len(res.val) = 2

\* The step in which the current point of an empty path is requested, or
\* length() is called on a path whose first segment is not MoveTo.
C8_FailingCall ==
    \/ (push_quad_to \/ push_arc_to) /\ path = <<>>
    \/ length /\ path # <<>> /\ path[1].kind # "M"

\* C8 as stated: after such a call fails the process is still running.
C8_Original ==
    (/\ ~res.ok
     /\ \/ res.op \in {"push_quad_to", "push_arc_to"} /\ res.on = <<>>
        \/ res.op = "length" /\ res.on # <<>> /\ res.on[1].kind # "M")
      => ~aborted

\* C8 as amended: such a call panics: it returns nothing, leaves the path
\* as it was, and no operation is ever performed after a panic.
C8_PanicEndsRun ==
    [][/\ ~aborted
       /\ C8_FailingCall => (aborted' /\ ~res'.ok /\ path' = path)]_vars

C8_Witness ==
    /\ aborted /\ res.op = "length" /\ ~res.ok
    /\ path # <<>> /\ path[1].kind # "M" /\ res.on = path

RECURSIVE HasBboxPrefix(_, _)
HasBboxPrefix(s, k) ==
    IF k = 0 THEN BoxInit(s[1]) ELSE HasBboxStep(HasBboxPrefix(s, k - 1), s[k])

LineOnly(s) == \A i \in 1..Len(s) : s[i].kind \in {"M", "L", "Z"}

----------------------------------------------------------------------------
(* Claims about the boxes and the transforms of a built path, under        *)
(* SpecGeom                                                                *)

\* Parameters at which a curve is sampled, as fractions n/d.
SampleTs == {<<1, 4>>, <<1, 2>>, <<3, 4>>}

\* The point B(n/d) of the 1-D cubic lies in [lo, hi].
CubicWithin(p0, p1, p2, p3, t, lo, hi) ==
    LET d3 == t[2] * t[2] * t[2]
        v == CubicNum(p0, p1, p2, p3, t)
    IN  lo * d3 <= v /\ v <= hi * d3

\* The segment's own curve, from the end point of the segment before it (the
\* current point), sampled, lies in the rectangle r.
SegWithin(segments, i, r) ==
    LET seg == segments[i]
        cur == segments[i - 1]
    IN  CASE seg.kind \in {"M", "L"} ->
               /\ r.x <= seg.x /\ seg.x <= r.x + r.width
               /\ r.y <= seg.y /\ seg.y <= r.y + r.height
          [] seg.kind = "C" /\ cur.kind # "Z" ->
               \A t \in SampleTs :
                  /\ CubicWithin(cur.x, seg.x1, seg.x2, seg.x, t, r.x, r.x + r.width)
                  /\ CubicWithin(cur.y, seg.y1, seg.y2, seg.y, t, r.y, r.y + r.height)
          [] OTHER -> TRUE

\* C11: the rectangle bbox() returns for a path starting with MoveTo contains
\* every point of every segment's curve, a CurveTo's curve starting at the
\* current point, that is the end point of the segment before it.
C11_Original ==
    (res.op = "bbox" /\ res.ok /\ res.on[1].kind = "M" /\ res.val.some) =>
        \A i \in 2..Len(res.on) : SegWithin(res.on, i, res.val)

\* C12: bbox_with_transform(T, no stroke) of a path returns the rectangle
\* bbox() returns for a copy of the path after transform(T), and with the
\* identity the rectangle bbox() returns for the path itself, whether the
\* path holds lines only or several consecutive CurveTo.
C12_Original ==
    (/\ res.op = "bbox_with_transform" /\ res.ok
     /\ res.val.stroke = 0
     /\ res.on # <<>> /\ res.on[1].kind = "M") =>
        /\ res.val.rect = CalcBbox(TransformPath(res.on, res.val.ts))
        /\ res.val.ts = Identity => res.val.rect = CalcBbox(res.on)

\* C13: transform(identity) leaves every coordinate and every parameter of
\* every segment as it was; an ArcTo keeps its radii, its x-axis rotation in
\* the unit it had, its two flags and its end point.
C13_Original ==
    (res.op = "transform" /\ res.ok /\ res.val = Identity) => path = res.on

\* The map "t1, then t2" as one affine map.
Compose(t2, t1) ==
    Ts(t2.a * t1.a + t2.c * t1.b, t2.b * t1.a + t2.d * t1.b,
       t2.a * t1.c + t2.c * t1.d, t2.b * t1.c + t2.d * t1.d,
       t2.a * t1.e + t2.c * t1.f + t2.e, t2.b * t1.e + t2.d * t1.f + t2.f)

\* The maps a second transform() is called with: two that commute with
\* FlipDiag and two that do not.
SecondTransforms == {Identity, FlipDiag, Ts(2, 0, 0, 1, 36, 0), Ts(0, 1, -1, 0, 0, 0)}

C15_Original ==
    (res.op = "transformed_path" /\ res.ok /\ res.on[1].kind = "M") =>
        /\ Len(res.val.out) = Len(res.on)
        /\ res.val.out = TransformPathArcs(res.on, res.val.ts)
        /\ path = res.on

\* C16: transform_from(offset, ts) completes for every offset from 0 to the
\* length of the path, whatever the kind of the segment at the offset; it
\* maps every coordinate of the segments from the offset on and leaves the
\* segments before the offset as they were.
C16_Original ==
    res.op = "transform_from" =>
        /\ res.ok
        /\ Len(path) = Len(res.on)
        /\ \A i \in 1..Len(path) :
              path[i] = IF i <= res.val.offset THEN res.on[i]
                        ELSE TransformSeg(res.on[i], res.val.ts)

----------------------------------------------------------------------------
(* The recursive compositor (crates/resvg/src/render.rs).                  *)
(*                                                                         *)
(* A group's box is in half pixels, so that floor and ceil do something;   *)
(* screen rectangles and offsets are in whole pixels.  A transform is a    *)
(* uniform scale s and a translation (tx, ty) in half pixels.  A surface,  *)
(* the caller's pixmap or a group's layer, is the sequence of what was     *)
(* drawn onto it.  The tree is rendered once and render_group reads each   *)
(* field of a group once: a field gets its value when it is read.          *)

NodeKinds == {"Group", "FillPath", "StrokePath", "Image"}
Nodes == 1..MaxNodes

\* The child list walked from its last node to its first.
ChildrenReversed(g) ==
    LET c == SelectSeq([n \in Nodes |-> n], LAMBDA n : parent[n] = g)
    IN  [k \in 1..Len(c) |-> c[Len(c) + 1 - k]]

\* group.children, or tree.children for g = 0, in list order
Children(g) == SelectSeq([n \in Nodes |-> n], LAMBDA n : parent[n] = g)

\* f64::floor and f64::ceil of a half-pixel coordinate, in pixels
Floor(v) == v \div 2
Ceil(v) == -((-v) \div 2)

\* PathBbox::new_bbox(): the box that no geometry has touched
NewBbox == [x |-> 998, y |-> 998, w |-> 2, h |-> 2]

\* The boxes a group may carry: untouched; inside the canvas at a fractional
\* position; of zero width; far outside the canvas; outside the canvas and
\* touching its right edge.
GroupBboxes ==
    {NewBbox,
     [x |-> 1, y |-> 1, w |-> 3, h |-> 3],
     [x |-> 2, y |-> 2, w |-> 0, h |-> 2],
     [x |-> 40, y |-> 40, w |-> 2, h |-> 2],
     [x |-> 2 * CanvasW, y |-> 2, w |-> 2, h |-> 2]}

TsOf(s, tx, ty) == [s |-> s, tx |-> tx, ty |-> ty]
RootTransforms == {TsOf(1, 0, 0), TsOf(1, 1, 1), TsOf(0, 0, 0)}

NoBox == [some |-> FALSE, x |-> 0, y |-> 0, w |-> 0, h |-> 0]
SomeBox(x, y, w, h) == [some |-> TRUE, x |-> x, y |-> y, w |-> w, h |-> h]

\* PathBbox::transform: the box of the mapped box; None when it has
\* neither width nor height.
BboxTransform(b, ts) ==
    IF ts.s * b.w = 0 /\ ts.s * b.h = 0 THEN NoBox
    ELSE SomeBox(ts.s * b.x + ts.tx, ts.s * b.y + ts.ty, ts.s * b.w, ts.s * b.h)

\* ScreenRect::new: None unless both sides are positive.
ScreenRectNew(x, y, w, h) == IF w > 0 /\ h > 0 THEN SomeBox(x, y, w, h) ELSE NoBox

\* ScreenRect::fit_to_rect: the part of r inside bounds.
FitToRect(r, bounds) ==
    LET x0 == Max2(r.x, bounds.x)
        y0 == Max2(r.y, bounds.y)
        x1 == Min2(r.x + r.w, bounds.x + bounds.w)
        y1 == Min2(r.y + r.h, bounds.y + bounds.h)
    IN  SomeBox(x0, y0, Max2(0, x1 - x0), Max2(0, y1 - y0))

\* ScreenSize::to_screen_rect
ToScreenRect(size) == SomeBox(0, 0, size.w, size.h)

\* A Pixmap::new that hands out a pixmap of no pixels.
PixmapNewAnySize(w, h, alloc) == alloc

\* tiny_skia::Pixmap::new: None for an empty pixmap or when the allocation
\* fails.
PixmapNew(w, h, alloc) == w > 0 /\ h > 0 /\ alloc

\* render_group 107-134: the integer layer rectangle.
Ibbox(dbox, has_filters, parent_offset) ==
    IF ~has_filters
    THEN LET r == ScreenRectNew(Floor(dbox.x) - 2 - parent_offset[1],
                                Floor(dbox.y) - 2 - parent_offset[2],
                                Ceil(dbox.w) + 4, Ceil(dbox.h) + 4)
         IN  IF r.some THEN FitToRect(r, ToScreenRect(ctx.target_size)) ELSE NoBox
    ELSE LET r == ScreenRectNew(Floor(dbox.x), Floor(dbox.y), Ceil(dbox.w), Ceil(dbox.h))
         IN  IF r.some THEN FitToRect(r, ctx.max_filter_region) ELSE NoBox

\* The translation by minus the origin of the device box, without the
\* sub-pixel part.
ShiftTsByBbox(ts, dbox, ibbox) == TsOf(ts.s, ts.tx - dbox.x, ts.ty - dbox.y)

\* render_group 136-145: sub_x and sub_y are the distances of the device box
\* from the integer rectangle, and shift_ts.pre_concat(transform) is the
\* transform followed by the translation by -(bbox.x - sub_x, bbox.y - sub_y).
ShiftTs(ts, dbox, ibbox) ==
    LET sub_x == dbox.x - 2 * ibbox.x
        sub_y == dbox.y - 2 * ibbox.y
    IN  TsOf(ts.s, ts.tx - (dbox.x - sub_x), ts.ty - (dbox.y - sub_y))

NoLayer == [some |-> FALSE, bbox |-> NoBox, ibbox |-> NoBox]

\* render_group 100-148: the layer a group obtains, or None at the first
\* of the five places that return early.
GroupLayer(gb, nf, parent_offset, alloc) ==
    IF gb = NewBbox THEN NoLayer
    ELSE LET dbox == BboxTransform(gb, ctx.root_transform) IN
         IF ~dbox.some THEN NoLayer
         ELSE LET ibbox == Ibbox(dbox, nf > 0, parent_offset) IN
              IF ~ibbox.some THEN NoLayer
              ELSE IF ~PixmapNew(ibbox.w, ibbox.h, alloc) THEN NoLayer
              ELSE [some |-> TRUE, bbox |-> dbox, ibbox |-> ibbox]

\* A colour channel and an opacity are whole 64ths; 64 is 1.0.
Opaque == 64
HalfOpaque == 32
Opacities == {HalfOpaque, Opaque}

\* One pixel, premultiplied: c is its white level, a its alpha.
Pixel(c, a) == [c |-> c, a |-> a]
Transparent == Pixel(0, 0)
Black == Pixel(0, Opaque)
White == Pixel(Opaque, Opaque)

\* The pixel scaled by the coverage it is drawn with, here an opacity.
ScalePixel(p, by) == Pixel((p.c * by) \div Opaque, (p.a * by) \div Opaque)

\* The blend with the terms of source and destination exchanged.
DestinationOver(src, dst) ==
    Pixel(dst.c + (src.c * (Opaque - dst.a)) \div Opaque,
          dst.a + (src.a * (Opaque - dst.a)) \div Opaque)

\* BlendMode::SourceOver: src + dst * (1 - src alpha).
SourceOver(src, dst) ==
    Pixel(src.c + (dst.c * (Opaque - src.a)) \div Opaque,
          src.a + (dst.a * (Opaque - src.a)) \div Opaque)

\* pixmap.draw_pixmap (185-198) at one pixel the layer covers: the layer's
\* pixel, scaled by PixmapPaint.opacity, over the parent's.
DrawPixmapAt(layer, by, dst) == SourceOver(ScalePixel(layer, by), dst)

\* What a surface holds at a pixel that every draw onto it covered, the
\* paths, images and layers being white where they draw, and no filter,
\* clip or mask having touched a layer: the draws of log from the k-th on,
\* replayed over dst.
RECURSIVE PixelAfter(_, _, _)
PixelAfter(log, k, dst) ==
    IF k > Len(log) THEN dst
    ELSE LET e == log[k] IN
         PixelAfter(log, k + 1,
             CASE e.ev = "composite" ->
                    DrawPixmapAt(PixelAfter(e.arg.layer, 1, Transparent),
                                 e.arg.opacity, dst)
               [] e.ev \in {"fill", "stroke", "image"} -> SourceOver(White, dst)
               [] OTHER -> dst)

\* One call of render_nodes and, for g # 0, of the render_group around it:
\* the surface it draws onto is log.
Frame(g, nf, dbox, ibbox, offset, ts) ==
    [g |-> g, idx |-> 1, pc |-> "nodes", fi |-> 0, nf |-> nf,
     bbox |-> dbox, ibbox |-> ibbox, offset |-> offset, ts |-> ts, log |-> <<>>]

Event(ev, n, arg) == [ev |-> ev, n |-> n, arg |-> arg]
Step(ev, n, k) == [ev |-> ev, n |-> n, k |-> k]

Top == stack[Len(stack)]
SetTop(f) == [stack EXCEPT ![Len(stack)] = f]

\* render_nodes 53-55: the loop has a node left.
InLoop(f) == f.pc = "nodes" /\ f.idx <= Len(Children(f.g))
CurNode == Children(Top.g)[Top.idx]

\* A None of render_group that ends the loop of render_nodes, as a "?"
\* after the call would.
SkipGroupAndSiblings(f) == [f EXCEPT !.idx = Len(Children(f.g)) + 1]

\* render_node 66-68 ignores what render_group returned; the loop of
\* render_nodes goes on with the next node.
SkipGroup(f) == [f EXCEPT !.idx = @ + 1]

\* The loop over group.filters left after its first iteration.
FiltersDoneAfterFirst(f) == f.fi >= Min2(1, f.nf)

\* render_group 158: the loop over group.filters has applied them all.
FiltersDone(f) == f.fi = f.nf

\* render_group past render_nodes (150-156)
PastChildren(f) == f.g # 0 /\ f.pc = "nodes" /\ f.idx > Len(Children(f.g))

\* Tree::render (20-43): the context, then render_nodes over tree.children
\* with offset (0, 0) and the root transform, onto the caller's pixmap.
render ==
    /\ UNCHANGED pathVars
    /\ rstate = "ready"
    /\ \E rt \in RootTransforms :
          /\ ctx' = [root_transform |-> rt,
                     target_size |-> [w |-> CanvasW, h |-> CanvasH],
                     max_filter_region |->
                         SomeBox(-CanvasW, -CanvasH, CanvasW * 2, CanvasH * 2)]
          /\ stack' = <<Frame(0, 0, NoBox, SomeBox(0, 0, CanvasW, CanvasH),
                               <<0, 0>>, rt)>>
    /\ rstate' = "running"
    /\ UNCHANGED <<kind, parent, canvas, trace, last, rejected, fields, opacity>>

\* A leaf renderer that ignores the pixmap it is handed and draws onto the
\* caller's canvas.
DrawLeafOntoCanvas(ev) ==
    LET f == Top
        n == CurNode
        drawn == [stack EXCEPT ![1].log = Append(@, Event(ev, n, f.ts))]
    IN  /\ stack' = [drawn EXCEPT ![Len(stack)].idx = @ + 1]
        /\ trace' = Append(trace, Step(ev, n, 0))
        /\ UNCHANGED <<kind, parent, rstate, ctx, canvas, last, rejected, fields, opacity>>

\* A leaf node is drawn onto the current surface under the current
\* transform (render_node 69-89).
DrawLeaf(ev) ==
    LET f == Top
        n == CurNode
    IN  /\ stack' = SetTop([f EXCEPT !.idx = @ + 1,
                                      !.log = Append(@, Event(ev, n, f.ts))])
        /\ trace' = Append(trace, Step(ev, n, 0))
        /\ UNCHANGED <<kind, parent, rstate, ctx, canvas, last, rejected, fields, opacity>>

render_fill_path ==
    /\ UNCHANGED pathVars
    /\ rstate = "running" /\ InLoop(Top) /\ kind[CurNode] = "FillPath"
    /\ DrawLeaf("fill")

render_stroke_path ==
    /\ UNCHANGED pathVars
    /\ rstate = "running" /\ InLoop(Top) /\ kind[CurNode] = "StrokePath"
    /\ DrawLeaf("stroke")

render_image ==
    /\ UNCHANGED pathVars
    /\ rstate = "running" /\ InLoop(Top) /\ kind[CurNode] = "Image"
    /\ DrawLeaf("image")

\* render_group 93-156: up to the call of render_nodes on the new layer, or
\* to an early return of None.
render_group ==
    /\ UNCHANGED pathVars
    /\ rstate = "running" /\ InLoop(Top) /\ kind[CurNode] = "Group"
    /\ \E gb \in GroupBboxes, nf \in 0..MaxFilters, alloc \in BOOLEAN :
          LET f == Top
              g == CurNode
              layer == GroupLayer(gb, nf, f.offset, alloc)
          IN  /\ fields' = fields \cup {[g |-> g, bbox |-> gb, nf |-> nf,
                                         parent_offset |-> f.offset]}
              /\ IF ~layer.some
                 THEN /\ stack' = SetTop(SkipGroup(f))
                      /\ rejected' = rejected \cup {g}
                 ELSE /\ stack' = Append(stack,
                             Frame(g, nf, layer.bbox, layer.ibbox,
                                   <<f.offset[1] + layer.ibbox.x,
                                     f.offset[2] + layer.ibbox.y>>,
                                   ShiftTs(f.ts, layer.bbox, layer.ibbox)))
                      /\ UNCHANGED rejected
    /\ UNCHANGED <<kind, parent, rstate, ctx, canvas, trace, last, opacity>>

\* One iteration of the loop over group.filters (158-169).
filter_apply ==
    /\ UNCHANGED pathVars
    /\ rstate = "running" /\ PastChildren(Top) /\ ~FiltersDone(Top)
    /\ LET f == Top
       IN  /\ stack' = SetTop([f EXCEPT !.fi = @ + 1,
                   !.log = Append(@, Event("filter", f.g,
                                 [k |-> f.fi + 1, region |-> f.ibbox]))])
           /\ trace' = Append(trace, Step("filter", f.g, f.fi + 1))
    /\ UNCHANGED <<kind, parent, rstate, ctx, canvas, last, rejected, fields, opacity>>

\* The clip path, if the group has one (171-173).
clip_apply ==
    /\ UNCHANGED pathVars
    /\ rstate = "running" /\ PastChildren(Top) /\ FiltersDone(Top)
    /\ \E present \in BOOLEAN :
          LET f == Top
          IN  IF present
              THEN /\ stack' = SetTop([f EXCEPT !.pc = "mask",
                          !.log = Append(@, Event("clip", f.g, f.ts))])
                   /\ trace' = Append(trace, Step("clip", f.g, 0))
              ELSE /\ stack' = SetTop([f EXCEPT !.pc = "mask"])
                   /\ UNCHANGED trace
    /\ UNCHANGED <<kind, parent, rstate, ctx, canvas, last, rejected, fields, opacity>>

\* The mask, if the group has one (175-183).
mask_apply ==
    /\ UNCHANGED pathVars
    /\ rstate = "running" /\ stack # <<>> /\ Top.pc = "mask"
    /\ \E present \in BOOLEAN :
          LET f == Top
          IN  IF present
              THEN /\ stack' = SetTop([f EXCEPT !.pc = "draw",
                          !.log = Append(@, Event("mask", f.g,
                              [offset |-> <<f.ibbox.x, f.ibbox.y>>, ts |-> f.ts]))])
                   /\ trace' = Append(trace, Step("mask", f.g, 0))
              ELSE /\ stack' = SetTop([f EXCEPT !.pc = "draw"])
                   /\ UNCHANGED trace
    /\ UNCHANGED <<kind, parent, rstate, ctx, canvas, last, rejected, fields, opacity>>

\* pixmap.draw_pixmap (185-200): the layer is composited onto the parent
\* surface at the ibbox origin and dropped; render_group returns Some(()).
draw_pixmap ==
    /\ UNCHANGED pathVars
    /\ rstate = "running" /\ stack # <<>> /\ Top.pc = "draw"
    /\ LET f == Top
           p == stack[Len(stack) - 1]
       IN  /\ stack' = Append(SubSeq(stack, 1, Len(stack) - 2),
                   [p EXCEPT !.idx = @ + 1,
                             !.log = Append(@, Event("composite", f.g,
                                 [at |-> <<f.ibbox.x, f.ibbox.y>>, layer |-> f.log,
                                  opacity |-> opacity[f.g]]))])
           /\ trace' = Append(trace, Step("composite", f.g, f.nf))
           /\ last' = f
    /\ UNCHANGED <<kind, parent, rstate, ctx, canvas, rejected, fields, opacity>>

\* render_nodes over tree.children is through: Tree::render returns.
render_return ==
    /\ UNCHANGED pathVars
    /\ rstate = "running" /\ Top.g = 0 /\ ~InLoop(Top)
    /\ canvas' = Top.log
    /\ stack' = <<>>
    /\ rstate' = "done"
    /\ UNCHANGED <<kind, parent, ctx, trace, last, rejected, fields, opacity>>

\* A tree of MaxNodes nodes as the parser left it; a node's parent is the
\* root or a group listed before it.
RenderInit ==
    /\ path = <<>>
    /\ it = NoIter
    /\ res = NoRes
    /\ aborted = FALSE
    /\ kind \in [Nodes -> NodeKinds]
    /\ parent \in [Nodes -> 0..(MaxNodes - 1)]
    /\ \A n \in Nodes :
          /\ parent[n] < n
          /\ parent[n] # 0 => kind[parent[n]] = "Group"
    /\ rstate = "ready"
    /\ ctx = <<>>
    /\ canvas = <<>>
    /\ stack = <<>>
    /\ trace = <<>>
    /\ last = [g |-> 0]
    /\ rejected = {}
    /\ fields = {}
    /\ opacity = [n \in Nodes |-> Opaque]

RenderNext ==
    \/ render
    \/ render_fill_path
    \/ render_stroke_path
    \/ render_image
    \/ render_group
    \/ filter_apply
    \/ clip_apply
    \/ mask_apply
    \/ draw_pixmap
    \/ render_return

SpecRender == RenderInit /\ [][RenderNext]_vars

\* The trees of groups and filled paths that end with a filled path, each
\* group opaque or half opaque.
OpacityInit ==
    /\ path = <<>>
    /\ it = NoIter
    /\ res = NoRes
    /\ aborted = FALSE
    /\ kind \in [Nodes -> {"Group", "FillPath"}]
    /\ kind[MaxNodes] = "FillPath"
    /\ parent \in [Nodes -> 0..(MaxNodes - 1)]
    /\ \A n \in Nodes :
          /\ parent[n] < n
          /\ parent[n] # 0 => kind[parent[n]] = "Group"
    /\ rstate = "ready"
    /\ ctx = <<>>
    /\ canvas = <<>>
    /\ stack = <<>>
    /\ trace = <<>>
    /\ last = [g |-> 0]
    /\ rejected = {}
    /\ fields = {}
    /\ opacity \in [Nodes -> Opacities]
    /\ \A n \in Nodes : kind[n] # "Group" => opacity[n] = Opaque

OpacityNext ==
    \/ render
    \/ render_fill_path
    \/ render_group
    \/ filter_apply
    \/ clip_apply
    \/ mask_apply
    \/ draw_pixmap
    \/ render_return

SpecOpacity == OpacityInit /\ [][OpacityNext]_vars

----------------------------------------------------------------------------
(* Claims about the compositor, under SpecRender *)

\* What a child leaves on its parent's surface, as opposed to what the
\* group does to its own layer.
ContentEvs == {"fill", "stroke", "image", "composite"}

EvKey(e) == <<e.ev, IF e.ev = "filter" THEN e.arg.k ELSE 0>>
FilterKeys(n) == [k \in 1..n |-> <<"filter", k>>]
EffectTails ==
    {<<>>, <<(<<"clip", 0>>)>>, <<(<<"mask", 0>>)>>, <<(<<"clip", 0>>), (<<"mask", 0>>)>>}

\* The layer holds what the children drew, then filters 1..fi in order,
\* then, only if fi = nf, at most one clip and after it at most one mask.
LayerOrdered(log, fi, nf) ==
    \E c \in 0..Len(log) :
        /\ \A i \in 1..c : log[i].ev \in ContentEvs
        /\ LET rest == [i \in 1..(Len(log) - c) |-> EvKey(log[c + i])]
           IN  \E t \in EffectTails :
                  /\ rest = FilterKeys(fi) \o t
                  /\ t # <<>> => fi = nf

\* Every child of g left its one draw on the layer, or was rejected.
ChildrenRendered(g, log) ==
    \A c \in Nodes : parent[c] = g =>
        LET at == {i \in 1..Len(log) : log[i].n = c /\ log[i].ev \in ContentEvs}
        IN  IF c \in rejected THEN at = {} ELSE Cardinality(at) = 1

\* C1: a layer under construction holds the children's draws, then the
\* filters applied so far in list order, and a clip or mask only after
\* all filters; the layer composited last held all children, then all nf
\* filters in order, then the clip if any, then the mask if any; and no
\* group is composited more than once.
C1_GroupStepOrder ==
    /\ \A k \in 1..Len(stack) :
          stack[k].g # 0 => LayerOrdered(stack[k].log, stack[k].fi, stack[k].nf)
    /\ last.g # 0 =>
          /\ last.fi = last.nf
          /\ LayerOrdered(last.log, last.nf, last.nf)
          /\ ChildrenRendered(last.g, last.log)
    /\ \A g \in Nodes :
          Cardinality({i \in 1..Len(trace) :
                          trace[i].ev = "composite" /\ trace[i].n = g}) <= 1

C1_Witness ==
    /\ last.g # 0 /\ last.nf = 2 /\ Len(last.log) = 5
    /\ last.log[1].ev = "fill" /\ last.log[4].ev = "clip" /\ last.log[5].ev = "mask"

\* n is g or lies below g in the tree.
RECURSIVE InSubtree(_, _)
InSubtree(n, g) == n = g \/ (parent[n] # 0 /\ InSubtree(parent[n], g))

TracePos(g) == {i \in 1..Len(trace) : InSubtree(trace[i].n, g)}

\* The draws of the children on one surface are in list order.
SurfaceInOrder(log) ==
    \A a, b \in 1..Len(log) :
        (a < b /\ log[a].ev \in ContentEvs /\ log[b].ev \in ContentEvs)
            => log[a].n < log[b].n

\* C2: for siblings i before j in a child list, every draw caused by i or
\* by a node below i, the composite of i's layer included, has happened
\* before the first draw caused by j or by a node below j; and on every
\* surface the children's draws lie in list order.
C2_SiblingPaintOrder ==
    /\ \A i, j \in Nodes :
          (parent[i] = parent[j] /\ i < j) =>
              \A a \in TracePos(i), b \in TracePos(j) : a < b
    /\ \A k \in 1..Len(stack) : SurfaceInOrder(stack[k].log)
    /\ SurfaceInOrder(canvas)

C2_Witness ==
    /\ rstate = "done" /\ Len(canvas) = 2
    /\ canvas[1].ev = "composite" /\ canvas[1].n = 1
    /\ Len(canvas[1].arg.layer) = 1
    /\ canvas[2].n = 3

UnderRejected(n) == \E r \in rejected : InSubtree(n, r)

\* C3: the step in which render_group rejects a group draws nothing,
\* leaves every surface as it was and leaves the loop of render_nodes at
\* the next sibling; no node at or below a rejected group ever draws; no
\* rejected group has a layer; nothing aborts; and when render has
\* returned, every node not at or below a rejected group has drawn.
C3_RejectedGroupDrawsNothing ==
    /\ [](/\ ~aborted
          /\ \A i \in 1..Len(trace) : ~UnderRejected(trace[i].n)
          /\ \A k \in 1..Len(stack) : stack[k].g \notin rejected
          /\ rstate = "done" =>
                \A n \in Nodes :
                    UnderRejected(n)
                      \/ \E i \in 1..Len(trace) :
                            trace[i].n = n /\ trace[i].ev \in ContentEvs)
    /\ [][rejected' # rejected =>
            /\ trace' = trace /\ canvas' = canvas /\ rstate' = "running"
            /\ Len(stack') = Len(stack)
            /\ \A k \in 1..Len(stack) :
                  /\ stack'[k].log = stack[k].log
                  /\ k < Len(stack) => stack'[k] = stack[k]
            /\ Top' = [Top EXCEPT !.idx = @ + 1]]_vars

C3_Witness ==
    /\ rstate = "done" /\ rejected = {1}
    /\ parent[2] = 1 /\ parent[3] = 0
    /\ Len(canvas) = 1 /\ canvas[1].n = 3

----------------------------------------------------------------------------
(* Claims about the layer rectangles and the life of the layers, under     *)
(* SpecRender                                                              *)

\* The pixels of the canvas a frame's surface lies over: its origin in
\* device space is the accumulated offset.
DeviceRect(f) == SomeBox(f.offset[1], f.offset[2], f.ibbox.w, f.ibbox.h)

\* r lies inside bounds.
RectInside(r, bounds) ==
    /\ bounds.x <= r.x /\ r.x + r.w <= bounds.x + bounds.w
    /\ bounds.y <= r.y /\ r.y + r.h <= bounds.y + bounds.h

\* C17: the layer of a group without filters, the group's device box
\* widened by 2 pixels and cut to the canvas, covers no pixel outside
\* (0, 0, W, H), at every nesting depth.
C17_Original ==
    \A k \in 1..Len(stack) :
        (stack[k].g # 0 /\ stack[k].nf = 0) =>
            RectInside(DeviceRect(stack[k]), SomeBox(0, 0, CanvasW, CanvasH))

\* C18: the maximum filter region render() computes for a W x H canvas is
\* 2W wide and 2H high and centred on the canvas, so that it contains the
\* canvas with the same margin on opposite sides, and the layer of a group
\* with filters, cut to it, never reaches beyond it.
C18_Original ==
    rstate # "ready" =>
        LET r == ctx.max_filter_region IN
        /\ r.w = 2 * CanvasW /\ r.h = 2 * CanvasH
        /\ RectInside(SomeBox(0, 0, CanvasW, CanvasH), r)
        /\ 0 - r.x = (r.x + r.w) - CanvasW
        /\ 0 - r.y = (r.y + r.h) - CanvasH
        /\ \A k \in 1..Len(stack) :
              (stack[k].g # 0 /\ stack[k].nf > 0) => RectInside(stack[k].ibbox, r)

\* The device box of the group lies outside the canvas: the two have no
\* point in common.
OutsideCanvas(e) ==
    LET d == BboxTransform(e.bbox, ctx.root_transform)
    IN  /\ e.bbox # NewBbox /\ d.some
        /\ \/ d.x >= 2 * CanvasW \/ d.x + d.w <= 0
           \/ d.y >= 2 * CanvasH \/ d.y + d.h <= 0

\* The device box, widened by 2 pixels on each side and taken from the
\* origin of the surface the group is drawn onto, has no pixel in common
\* with (0, 0, W, H).
WidenedOutside(e) ==
    LET d == BboxTransform(e.bbox, ctx.root_transform)
        x == Floor(d.x) - 2 - e.parent_offset[1]
        y == Floor(d.y) - 2 - e.parent_offset[2]
    IN  /\ e.bbox # NewBbox /\ d.some
        /\ \/ x >= CanvasW \/ x + Ceil(d.w) + 4 <= 0
           \/ y >= CanvasH \/ y + Ceil(d.h) + 4 <= 0

\* Group g was skipped: it has no layer, neither it nor a node below it drew
\* or is being rendered, and once render has returned each of its siblings
\* that was not skipped itself has drawn.
SkippedAlone(g) ==
    /\ g \in rejected
    /\ \A i \in 1..Len(trace) : ~InSubtree(trace[i].n, g)
    /\ \A k \in 1..Len(stack) : stack[k].g = 0 \/ ~InSubtree(stack[k].g, g)
    /\ rstate = "done" =>
          \A s \in Nodes :
              (parent[s] = parent[g] /\ s \notin rejected) =>
                  \E i \in 1..Len(trace) : trace[i].n = s /\ trace[i].ev \in ContentEvs

\* C19 as stated: a group without filters whose device box lies entirely
\* outside the canvas changes no pixel, whatever its children would draw,
\* while the siblings before and after it render normally.
C19_Original ==
    \A e \in fields : (e.nf = 0 /\ OutsideCanvas(e)) => SkippedAlone(e.g)

\* C19: a group without filters whose device box, widened by the 2 pixel
\* margin and taken from the origin of the surface it is drawn onto, has no
\* pixel in common with (0, 0, W, H) is skipped: it obtains no layer,
\* nothing at or below it draws, and its siblings render normally.
C19_WidenedOutsideGroupSkipped ==
    \A e \in fields : (e.nf = 0 /\ WidenedOutside(e)) => SkippedAlone(e.g)

\* Node 2, between its siblings 1 and 3, was such a group; 1 and 3 drew.
C19_Witness ==
    /\ rstate = "done"
    /\ \E e \in fields : e.g = 2 /\ e.nf = 0 /\ WidenedOutside(e)
    /\ parent = <<0, 0, 0>>
    /\ Len(canvas) = 2 /\ canvas[1].n = 1 /\ canvas[2].n = 3

\* The number of groups around node n.
RECURSIVE Depth(_)
Depth(n) == IF n = 0 THEN 0 ELSE 1 + Depth(parent[n])

\* The layers alive: the sub_pixmap of each call of render_group that is past
\* its allocation and has not returned.
LiveLayers == {i \in 1..Len(stack) : stack[i].g # 0}

\* What group g itself writes to its layer: something a child of g draws or
\* composites, or a filter, the clip or the mask of g.
OwnWrite(g, e) ==
    IF e.ev \in ContentEvs THEN parent[e.n] = g ELSE g # 0 /\ e.n = g

\* The live layers are those of the groups around the current node, the
\* innermost last, and none is left when render is not running.
LayersAreTheActiveGroups ==
    /\ rstate # "running" => stack = <<>>
    /\ rstate = "running" =>
          /\ stack[1].g = 0
          /\ \A i \in 2..Len(stack) : stack[i].g # 0 /\ parent[stack[i].g] = stack[i - 1].g
          /\ Cardinality(LiveLayers) = Depth(Top.g)

\* One step of the renderer creates a layer only as the step of a group,
\* writes to the innermost surface only and only what that group writes,
\* hands a layer to the composite of its own group and drops it there, and
\* creates nothing for a leaf.
LayerStep ==
    /\ (stack # <<>> /\ Len(stack') > Len(stack)) =>
          /\ InLoop(Top) /\ kind[CurNode] = "Group"
          /\ stack' = Append(stack, stack'[Len(stack')])
          /\ stack'[Len(stack')].g = CurNode
          /\ stack'[Len(stack')].log = <<>>
    /\ \A i \in 1..Len(stack) :
          (i <= Len(stack') /\ stack'[i].log # stack[i].log) =>
              /\ i = Len(stack')
              /\ stack'[i].g = stack[i].g
              /\ Len(stack'[i].log) = Len(stack[i].log) + 1
              /\ SubSeq(stack'[i].log, 1, Len(stack[i].log)) = stack[i].log
              /\ OwnWrite(stack[i].g, stack'[i].log[Len(stack'[i].log)])
    /\ (stack' # <<>> /\ Len(stack') < Len(stack)) =>
          LET under == stack'[Len(stack')]
              e == under.log[Len(under.log)]
          IN  /\ Len(stack') = Len(stack) - 1
              /\ Top.pc = "draw"
              /\ e.ev = "composite" /\ e.n = Top.g /\ e.arg.layer = Top.log
    /\ (stack # <<>> /\ stack' = <<>>) =>
          /\ Len(stack) = 1 /\ Top.g = 0 /\ rstate' = "done"
    /\ (stack # <<>> /\ InLoop(Top) /\ kind[CurNode] # "Group") =>
          Len(stack') = Len(stack)
    /\ (stack # <<>> /\ InLoop(Top) /\ kind[CurNode] = "Group"
            /\ CurNode \in rejected') =>
          /\ Len(stack') = Len(stack)
          /\ \A i \in 1..Len(stack) : stack'[i].log = stack[i].log

----------------------------------------------------------------------------
(* Claims about the bookkeeping of the layers, under SpecRender *)

\* C21 as stated: the mask of a group is given the transform and the
\* accumulated offset that render_group gave to render_nodes for the
\* group's children, at every depth.
C21_Original ==
    \A i \in 1..Len(stack) :
        \A k \in 1..Len(stack[i].log) :
            LET e == stack[i].log[k]
            IN  e.ev = "mask" =>
                    /\ e.arg.ts = stack[i].ts
                    /\ e.arg.offset = stack[i].offset

----------------------------------------------------------------------------
(* Claims about the handedness test, under SpecHandedness *)

\* The linear part is a reflection of one axis, a rotation by a multiple of
\* a quarter turn, a uniform scale.
IsAxisReflection(ts) ==
    /\ ts.b = 0 /\ ts.c = 0
    /\ <<ts.a, ts.d>> \in {<<-1, 1>>, <<1, -1>>}
IsRotation(ts) ==
    <<ts.a, ts.b, ts.c, ts.d>> \in
        {<<1, 0, 0, 1>>, <<0, 1, -1, 0>>, <<-1, 0, 0, -1>>, <<0, -1, 1, 0>>}
IsUniformScale(ts) == ts.b = 0 /\ ts.c = 0 /\ ts.a = ts.d

\* C22: does_transform_flip_handedness(ts) is true exactly when
\* a*d - b*c < 0, whatever the translation part is; so it is true for a
\* reflection of one axis and false for the identity, for a rotation and
\* for a uniform scale.
C22_FlipsIffNegativeDeterminant ==
    res.op = "does_transform_flip_handedness" =>
        LET ts == res.on
        IN  /\ res.val = (ts.a * ts.d - ts.b * ts.c < 0)
            /\ res.val = DoesTransformFlipHandedness([ts EXCEPT !.e = 0, !.f = 0])
            /\ IsAxisReflection(ts) => res.val
            /\ (ts = Identity \/ IsRotation(ts) \/ IsUniformScale(ts)) => ~res.val

\* The called transform was the reflection in the diagonal, moved: neither
\* a nor d tells the handedness.
C22_Witness ==
    /\ res.op = "does_transform_flip_handedness"
    /\ res.on = Ts(0, -1, -1, 0, 36, 36)
    /\ res.val

----------------------------------------------------------------------------
(* Claims about arcs that are straight lines, under SpecArc *)

\* The end point of the segment before segment i, ClosePath passed over;
\* the slice starts with MoveTo and i > 1.
RECURSIVE PrevEnd(_, _)
PrevEnd(segments, i) ==
    IF segments[i - 1].kind = "Z" /\ i > 2 THEN PrevEnd(segments, i - 1)
    ELSE <<segments[i - 1].x, segments[i - 1].y>>

\* Segment i is an arc with a radius of zero or with its end point on the
\* point the path has reached.
Degenerate(segments, i) ==
    /\ segments[i].kind = "A"
    /\ \/ segments[i].rx = 0
       \/ segments[i].ry = 0
       \/ PrevEnd(segments, i) = <<segments[i].x, segments[i].y>>

AllArcsDegenerate(segments) ==
    \A i \in 1..Len(segments) : segments[i].kind = "A" => Degenerate(segments, i)

\* The slice with a LineTo to the same end point in the place of each ArcTo.
AsLines(segments) ==
    [i \in 1..Len(segments) |->
        IF segments[i].kind = "A" THEN LineTo(segments[i].x, segments[i].y)
        ELSE segments[i]]

\* Segment i of the result has the end point a LineTo would have.
EndMappedAsLine(before, after, ts, i) ==
    <<after[i].x, after[i].y>> = Apply(ts, before[i].x, before[i].y)

\* C23: a degenerate arc is no error and is a straight line to its end
\* point for every caller: push_arc_to of the cubic-only configuration
\* appends one LineTo; bbox and length of a slice whose arcs are degenerate
\* are those of the slice with LineTo in their place; transform() and
\* TransformedPath map the end point as they map a line's, and what follows
\* the arc goes on from its end point.
C23_DegenerateArcIsLine ==
    /\ res.op \in {"bbox", "length", "transform", "transformed_path"} => res.ok
    /\ (res.op = "push_arc_to" /\ res.ok) =>
          LET prev == LastPos(res.on)
              a == res.val
          IN  (a.rx = 0 \/ a.ry = 0 \/ prev = <<a.x, a.y>>) =>
                  path = Append(res.on, LineTo(a.x, a.y))
    /\ (res.op = "bbox" /\ AllArcsDegenerate(res.on)) =>
          res.val = CalcBbox(AsLines(res.on))
    /\ (res.op = "length" /\ AllArcsDegenerate(res.on)) =>
          res.val = CalcLength(AsLines(res.on))
    /\ res.op = "transform" =>
          /\ \A i \in 1..Len(res.on) :
                Degenerate(res.on, i) => EndMappedAsLine(res.on, path, res.val, i)
          /\ AllArcsDegenerate(res.on) =>
                AsLines(path) = TransformPath(AsLines(res.on), res.val)
    /\ res.op = "transformed_path" =>
          /\ \A i \in 1..Len(res.on) :
                Degenerate(res.on, i) =>
                    EndMappedAsLine(res.on, res.val.out, res.val.ts, i)
          /\ AllArcsDegenerate(res.on) =>
                res.val.out = TransformedPath(AsLines(res.on), res.val.ts)

\* TransformedPath under the mirror met an arc that ends where the line
\* before it ended and returned it as the LineTo to the mirrored point.
C23_Witness ==
    /\ res.op = "transformed_path" /\ res.val.ts = MirrorX
    /\ res.on = <<MoveTo(0, 0), LineTo(36, 0),
                  ArcTo(72, 36, Num(0, 0), FALSE, TRUE, 36, 0)>>
    /\ res.val.out[3] = LineTo(0, 0)

----------------------------------------------------------------------------
(* Claims about the opacity of nested layers, under SpecOpacity *)

\* Group g was given no filters and obtained a layer over the whole canvas.
FullCanvasLayer(g) ==
    \E e \in fields :
        /\ e.g = g /\ e.nf = 0
        /\ LET l == GroupLayer(e.bbox, 0, e.parent_offset, TRUE)
           IN  l.some /\ l.ibbox = SomeBox(0, 0, CanvasW, CanvasH)

\* render has returned from the tree of a white path in a group in a group,
\* neither skipped, both with a layer over the whole canvas and neither with
\* a clip or a mask.
NestedWhiteGroups ==
    /\ rstate = "done"
    /\ kind = <<"Group", "Group", "FillPath">>
    /\ parent = <<0, 1, 2>>
    /\ rejected = {}
    /\ FullCanvasLayer(1) /\ FullCanvasLayer(2)
    /\ \A i \in 1..Len(trace) : trace[i].ev \in {"fill", "composite"}

\* The white level of a canvas pixel that was black before render.
CanvasOverBlack == PixelAfter(canvas, 1, Black)

ThreeQuarters == (3 * Opaque) \div 4

\* C24 as stated: two nested white groups of opacity 0.5 leave about 0.75
\* of full white on a black canvas.
C24_Original ==
    (NestedWhiteGroups /\ opacity[1] = HalfOpaque /\ opacity[2] = HalfOpaque) =>
        CanvasOverBlack.c \in (ThreeQuarters - 1)..(ThreeQuarters + 1)

\* C24: each layer is composited onto its parent with its group's opacity,
\* so the opacities of nested groups multiply: a white path in two nested
\* groups leaves opacity[1] * opacity[2] of full white on a black canvas,
\* 0.25 for two groups of opacity 0.5.
C24_NestedOpacitiesMultiply ==
    NestedWhiteGroups =>
        CanvasOverBlack = Pixel((opacity[1] * opacity[2]) \div Opaque, Opaque)

\* Both groups were half opaque and the pixel is a quarter white.
C24_Witness ==
    /\ NestedWhiteGroups
    /\ opacity[1] = HalfOpaque /\ opacity[2] = HalfOpaque
    /\ CanvasOverBlack = Pixel(Opaque \div 4, Opaque)

----------------------------------------------------------------------------
(* Claims about the start point of an arc under a transform, under SpecArc *)

\* C25 as stated: transform() converts every ArcTo from the untransformed
\* end point of the segment before it, wherever the arc stands in the path,
\* and TransformedPath converts it from the same point.
C25_Original ==
    /\ res.op = "transform" =>
          \A i \in 2..Len(res.on) :
              res.on[i].kind = "A" =>
                  path[i] = TransformArcArm(res.on[i], res.val, PrevEnd(res.on, i))
    /\ res.op = "transformed_path" =>
          \A i \in 2..Len(res.on) :
              res.on[i].kind = "A" =>
                  res.val.out[i] =
                      TransformedNextArcs(res.on, res.val.ts, i, PrevEnd(res.on, i)).seg

----------------------------------------------------------------------------
(* Claims about the position of a layer's content, under SpecRender *)

\* Where a transform of the compositor puts the point (x, y), in half pixels.
MapPoint(ts, p) == <<ts.s * p[1] + ts.tx, ts.s * p[2] + ts.ty>>

SamplePoints == {<<0, 0>>, <<3, 1>>, <<-2, 5>>}

\* What is painted into the layer of frame f under f.ts is, once the layer
\* is drawn at origin at of the surface under it, where the transform of
\* that surface puts it.
LandsWhereParentPuts(f, under, at) ==
    /\ f.ts.s = under.ts.s
    /\ <<under.ts.tx - f.ts.tx, under.ts.ty - f.ts.ty>> = <<2 * f.ibbox.x, 2 * f.ibbox.y>>
    /\ at = <<f.ibbox.x, f.ibbox.y>>
    /\ \A p \in SamplePoints :
          LET q == MapPoint(under.ts, p)
              inLayer == MapPoint(f.ts, p)
          IN  /\ inLayer = <<q[1] - 2 * f.ibbox.x, q[2] - 2 * f.ibbox.y>>
              /\ <<inLayer[1] + 2 * at[1], inLayer[2] + 2 * at[2]>> = q

\* The layer composited last is the last thing drawn onto the surface on
\* top of the stack.
JustComposited ==
    /\ stack # <<>> /\ last.g # 0
    /\ Top.log # <<>>
    /\ Top.log[Len(Top.log)].ev = "composite"
    /\ Top.log[Len(Top.log)].n = last.g

\* C26: the transform a group's children are rendered with is the incoming
\* one followed by the translation by minus the ibbox origin, and the layer
\* is drawn at the ibbox origin, so what the incoming transform puts at q of
\* the parent surface is painted at q - origin in the layer and is at q
\* after the composite; at every depth, with and without filters, whether
\* or not ibbox was clamped.
C26_LayeringPreservesPosition ==
    /\ \A i \in 2..Len(stack) :
          LandsWhereParentPuts(stack[i], stack[i - 1],
                               <<stack[i].ibbox.x, stack[i].ibbox.y>>)
    /\ JustComposited =>
          LandsWhereParentPuts(last, Top, Top.log[Len(Top.log)].arg.at)

\* A group without filters inside another group, its rectangle cut by the
\* canvas and away from the origin of its parent's layer, was composited.
C26_Witness ==
    /\ JustComposited
    /\ Len(stack) = 2 /\ Top.g # 0
    /\ last.nf = 0
    /\ last.ibbox.x # 0
    /\ last.ibbox.y # Floor(last.bbox.y) - 2 - Top.offset[2]

----------------------------------------------------------------------------
(* Claims about the accumulated offset, under SpecRender *)

\* The sum of the ibbox origins of the layers of frames 2..i.
RECURSIVE OriginSum(_)
OriginSum(i) ==
    IF i < 2 THEN <<0, 0>>
    ELSE LET s == OriginSum(i - 1)
         IN  <<s[1] + stack[i].ibbox.x, s[2] + stack[i].ibbox.y>>

\* The integer origin of a frame's device box: its floor, less the margin
\* of 2 pixels when the group has no filters.
IntegerOrigin(f) ==
    IF f.nf = 0 THEN <<Floor(f.bbox.x) - 2, Floor(f.bbox.y) - 2>>
    ELSE <<Floor(f.bbox.x), Floor(f.bbox.y)>>

\* fit_to_rect left the rectangle of frame f as ScreenRect::new made it.
Unclamped(f) ==
    /\ f.ibbox.w = Ceil(f.bbox.w) + (IF f.nf = 0 THEN 4 ELSE 0)
    /\ f.ibbox.h = Ceil(f.bbox.h) + (IF f.nf = 0 THEN 4 ELSE 0)

\* C27 as stated: the offset handed to a group's children is the sum of the
\* ibbox origins of the layers around them, and for a group with or without
\* filters whose rectangle was not clamped, ibbox origin + incoming offset
\* is the integer origin of its device box.
C27_Original ==
    \A i \in 2..Len(stack) :
        /\ stack[1].offset = <<0, 0>>
        /\ stack[i].offset = OriginSum(i)
        /\ Unclamped(stack[i]) =>
              <<stack[i].ibbox.x + stack[i - 1].offset[1],
                stack[i].ibbox.y + stack[i - 1].offset[2]>> = IntegerOrigin(stack[i])

====
